---- MODULE Spec2Model ----
(***************************************************************************)
(* Model of the MediaWiki bridge (src/app.py): topic-to-wiki resolution.   *)
(*                                                                         *)
(* Python strings are modelled as sequences of one-character strings, so   *)
(* that URL parsing, lower-casing, suffix tests and slug generation are    *)
(* computed character by character as the code computes them.              *)
(***************************************************************************)
EXTENDS Integers, Sequences, FiniteSets, TLC

(***************************************************************************)
(* Characters and string primitives (str methods used by the code)         *)
(***************************************************************************)
LowerLetters ==
  <<"a","b","c","d","e","f","g","h","i","j","k","l","m","n","o","p","q","r","s","t","u","v","w","x","y","z">>

UpperLetters ==
  <<"A","B","C","D","E","F","G","H","I","J","K","L","M","N","O","P","Q","R","S","T","U","V","W","X","Y","Z">>

Digits == {"0","1","2","3","4","5","6","7","8","9"}

Range(s) == {s[i] : i \in 1..Len(s)}

IsUpper(c) == c \in Range(UpperLetters)

IsAlpha(c) == c \in Range(LowerLetters) \cup Range(UpperLetters)

IsDigitChar(c) == c \in Digits

IsAlnum(c) == IsAlpha(c) \/ IsDigitChar(c)

\* str.lower() on one character
LowerChar(c) ==
  IF IsUpper(c)
  THEN LowerLetters[CHOOSE i \in 1..Len(UpperLetters) : UpperLetters[i] = c]
  ELSE c

\* str.lower()
Lower(s) == [i \in 1..Len(s) |-> LowerChar(s[i])]

\* s[a:b] with 0-based Python bounds already converted: characters a..b (1-based, inclusive)
Slice(s, a, b) == IF a > b THEN <<>> ELSE SubSeq(s, a, b)

\* str.startswith
StartsWith(s, p) == Len(p) <= Len(s) /\ SubSeq(s, 1, Len(p)) = p

\* str.endswith
EndsWith(s, p) == Len(p) <= Len(s) /\ SubSeq(s, Len(s) - Len(p) + 1, Len(s)) = p

\* str.find(c) for a one-character needle, 1-based; 0 when absent
Find(s, c) ==
  IF \E i \in 1..Len(s) : s[i] = c
  THEN CHOOSE i \in 1..Len(s) : s[i] = c /\ \A j \in 1..(i - 1) : s[j] # c
  ELSE 0

\* str.rfind(c), 1-based; 0 when absent
RFind(s, c) ==
  IF \E i \in 1..Len(s) : s[i] = c
  THEN CHOOSE i \in 1..Len(s) : s[i] = c /\ \A j \in (i + 1)..Len(s) : s[j] # c
  ELSE 0

IsSpace(c) == c = " "

RECURSIVE LStrip(_)
LStrip(s) == IF s # <<>> /\ IsSpace(Head(s)) THEN LStrip(Tail(s)) ELSE s

RECURSIVE RStrip(_)
RStrip(s) ==
  IF s # <<>> /\ IsSpace(s[Len(s)]) THEN RStrip(SubSeq(s, 1, Len(s) - 1)) ELSE s

\* str.strip()
Strip(s) == RStrip(LStrip(s))

(***************************************************************************)
(* String constants of the program                                         *)
(***************************************************************************)
s_fandom_com == <<"f","a","n","d","o","m",".","c","o","m">>

s_wiki_gg == <<"w","i","k","i",".","g","g">>

s_wikipedia_org == <<"w","i","k","i","p","e","d","i","a",".","o","r","g">>

s_http == <<"h","t","t","p">>

s_https == <<"h","t","t","p","s">>

s_sep == <<":","/","/">>

ALLOWED_WIKI_HOST_SUFFIXES == <<s_fandom_com, s_wiki_gg, s_wikipedia_org>>

(***************************************************************************)
(* urllib.parse.urlparse, as far as the code uses it: .scheme, .hostname   *)
(***************************************************************************)
SchemeChars == Range(LowerLetters) \cup Range(UpperLetters) \cup Digits \cup {"+", "-", "."}

\* urlsplit: "<scheme>:" is split off when the text before the first ':' (at i)
\* starts with a letter and is made of scheme characters
HasSchemeAt(u, i) ==
  /\ i > 1
  /\ IsAlpha(u[1])
  /\ \A j \in 1..(i - 1) : u[j] \in SchemeChars

SchemeAt(u, i) == IF HasSchemeAt(u, i) THEN Lower(SubSeq(u, 1, i - 1)) ELSE <<>>

RestAt(u, i) == IF HasSchemeAt(u, i) THEN Slice(u, i + 1, Len(u)) ELSE u

\* _splitnetloc: the netloc ends at the first of / ? # (or at the end)
FirstStop(x) ==
  IF \E i \in 1..Len(x) : x[i] \in {"/", "?", "#"}
  THEN CHOOSE i \in 1..Len(x) :
         x[i] \in {"/", "?", "#"} /\ \A j \in 1..(i - 1) : x[j] \notin {"/", "?", "#"}
  ELSE Len(x) + 1

UpToStop(x) == Slice(x, 1, FirstStop(x) - 1)

\* the netloc is present only after "//"
NetlocOf(rest) ==
  IF StartsWith(rest, <<"/", "/">>) THEN UpToStop(Slice(rest, 3, Len(rest))) ELSE <<>>

CutAt(h, c) == IF c = 0 THEN h ELSE Slice(h, 1, c - 1)

\* .hostname: netloc.rpartition('@')[2].partition(':')[0].lower(); <<>> stands for None
HostOfInfo(hostinfo) == Lower(CutAt(hostinfo, Find(hostinfo, ":")))

HostOfNetloc(netloc) == HostOfInfo(Slice(netloc, RFind(netloc, "@") + 1, Len(netloc)))

ParseWith(u, i) == [scheme |-> SchemeAt(u, i), hostname |-> HostOfNetloc(NetlocOf(RestAt(u, i)))]

ParseStripped(u) == ParseWith(u, Find(u, ":"))

\* urlparse(url): leading spaces are dropped first
urlparse(url) == ParseStripped(LStrip(url))

(***************************************************************************)
(* URL helpers                                                             *)
(***************************************************************************)
NormalizeParsed(parsed) ==
  IF parsed.scheme \notin {s_http, s_https} \/ Lower(parsed.hostname) = <<>>
  THEN [ok |-> FALSE, base |-> <<>>]
  ELSE [ok |-> TRUE, base |-> parsed.scheme \o s_sep \o Lower(parsed.hostname)]

\* mutant of normalize_base: the url is parsed without .strip()
normalize_base_NoStrip(url) == NormalizeParsed(urlparse(url))

\* raises HTTPException(400) when ok is FALSE
normalize_base(url) == NormalizeParsed(urlparse(Strip(url)))

HostAllowed(host) ==
  \E k \in 1..Len(ALLOWED_WIKI_HOST_SUFFIXES) : EndsWith(host, ALLOWED_WIKI_HOST_SUFFIXES[k])

\* mutant of host_is_allowed: the suffix may occur anywhere in the host
host_is_allowed_Contains(base) ==
  \E k \in 1..Len(ALLOWED_WIKI_HOST_SUFFIXES) :
    \E n \in 0..Len(urlparse(base).hostname) :
      EndsWith(SubSeq(urlparse(base).hostname, 1, n), ALLOWED_WIKI_HOST_SUFFIXES[k])

host_is_allowed(base) == HostAllowed(Lower(urlparse(base).hostname))

is_fandom(base) == EndsWith(Lower(urlparse(base).hostname), s_fandom_com)

is_wikipedia(base) == EndsWith(Lower(urlparse(base).hostname), s_wikipedia_org)

s_api_php == <<"/","a","p","i",".","p","h","p">>

s_w_api_php == <<"/","w","/","a","p","i",".","p","h","p">>

\* mutant of ApisOf: fandom.com hosts get the same order as the other hosts
ApisOf_NoFandomCase(base) ==
  IF is_wikipedia(base) THEN <<base \o s_w_api_php>>
  ELSE <<base \o s_w_api_php, base \o s_api_php>>

ApisOf(base) ==
  IF is_wikipedia(base) THEN <<base \o s_w_api_php>>
  ELSE IF is_fandom(base) THEN <<base \o s_api_php, base \o s_w_api_php>>
  ELSE <<base \o s_w_api_php, base \o s_api_php>>

ApisOfNormalized(nb) ==
  IF ~nb.ok THEN [ok |-> FALSE, apis |-> <<>>] ELSE [ok |-> TRUE, apis |-> ApisOf(nb.base)]

\* raises HTTPException(400) when ok is FALSE (from normalize_base)
candidate_action_apis(base) == ApisOfNormalized(normalize_base(base))

(***************************************************************************)
(* Topic resolution: tokens and slugs                                      *)
(***************************************************************************)
w_the == <<"t","h","e">>

w_an == <<"a","n">>

w_and == <<"a","n","d">>

w_or == <<"o","r">>

w_of == <<"o","f">>

w_to == <<"t","o">>

w_in == <<"i","n">>

w_on == <<"o","n">>

w_for == <<"f","o","r">>

STOPWORDS == {w_the, <<"a">>, w_an, w_and, w_or, w_of, w_to, w_in, w_on, w_for}

ROMANS ==
  { <<"i">>, <<"i","i">>, <<"i","i","i">>, <<"i","v">>, <<"v">>, <<"v","i">>,
    <<"v","i","i">>, <<"v","i","i","i">>, <<"i","x">>, <<"x">> }

_is_roman_numeral(t) == Lower(t) \in ROMANS

\* regex class \w on the characters of the model's alphabet
IsWordChar(c) == IsAlnum(c) \/ c = "_"

\* re.sub(r"\s+", " ", s)
RECURSIVE CollapseSpaces(_)
CollapseSpaces(s) ==
  IF Len(s) < 2 THEN s
  ELSE IF IsSpace(s[1]) /\ IsSpace(s[2]) THEN CollapseSpaces(Tail(s))
  ELSE <<s[1]>> \o CollapseSpaces(Tail(s))

\* s.split(" "): the pieces between single spaces, empty pieces included
RECURSIVE SplitSpace(_)
SplitSpace(s) ==
  LET i == Find(s, " ")
  IN  IF i = 0 THEN <<s>>
      ELSE <<Slice(s, 1, i - 1)>> \o SplitSpace(Slice(s, i + 1, Len(s)))

NonEmpty(t) == t # <<>>

\* raises HTTPException(400, "topic is empty") when ok is FALSE
tokenize_topic(topic) ==
  LET s0 == Lower(Strip(topic))
      s1 == [i \in 1..Len(s0) |-> IF IsWordChar(s0[i]) \/ IsSpace(s0[i]) THEN s0[i] ELSE " "]
      s2 == Strip(CollapseSpaces(s1))
  IN  IF s0 = <<>> THEN [ok |-> FALSE, tokens |-> <<>>]
      ELSE [ok |-> TRUE, tokens |-> SelectSeq(SplitSpace(s2), NonEmpty)]

RECURSIVE JoinWith(_, _)
JoinWith(ts, sep) ==
  IF ts = <<>> THEN <<>>
  ELSE IF Len(ts) = 1 THEN ts[1]
  ELSE ts[1] \o sep \o JoinWith(Tail(ts), sep)

join_compact(ts) == JoinWith(ts, <<>>)

join_hyphen(ts) == JoinWith(ts, <<"-">>)

\* both joins of one token subset, in the order the code appends them
BothJoins(ts) == <<join_compact(ts), join_hyphen(ts)>>

NotStopword(t) == t \notin STOPWORDS

NotRoman(t) == ~_is_roman_numeral(t)

\* not t.isdigit()
NotAllDigits(t) == ~(t # <<>> /\ \A i \in 1..Len(t) : IsDigitChar(t[i]))

\* re.sub(r"\d+$", "", t)
RECURSIVE StripDigitSuffix(_)
StripDigitSuffix(t) ==
  IF t # <<>> /\ IsDigitChar(t[Len(t)]) THEN StripDigitSuffix(SubSeq(t, 1, Len(t) - 1)) ELSE t

\* for n in range(len(cleaned) - 1, 0, -1): both joins of cleaned[:n]
RECURSIVE PrefixJoins(_, _)
PrefixJoins(cleaned, n) ==
  IF n < 1 THEN <<>>
  ELSE BothJoins(SubSeq(cleaned, 1, n)) \o PrefixJoins(cleaned, n - 1)

\* "".join(t[0] for t in cleaned if t and t[0].isalnum())
RECURSIVE Acronym(_)
Acronym(ts) ==
  IF ts = <<>> THEN <<>>
  ELSE (IF ts[1] # <<>> /\ IsAlnum(ts[1][1]) THEN <<ts[1][1]>> ELSE <<>>) \o Acronym(Tail(ts))

\* mutant of Uniq: the check of the minimum length is missing
RECURSIVE Uniq_NoMinLen(_, _)
Uniq_NoMinLen(cands, uniq) ==
  IF cands = <<>> THEN uniq
  ELSE LET c == Lower(Strip(cands[1]))
       IN  IF c = <<>> \/ c \in Range(uniq)
           THEN Uniq_NoMinLen(Tail(cands), uniq)
           ELSE Uniq_NoMinLen(Tail(cands), Append(uniq, c))

\* the dedup loop of candidate_slugs: strip, lower, drop empty, short and seen
RECURSIVE Uniq(_, _)
Uniq(cands, uniq) ==
  IF cands = <<>> THEN uniq
  ELSE LET c == Lower(Strip(cands[1]))
       IN  IF c = <<>> \/ Len(c) < 3 \/ c \in Range(uniq)
           THEN Uniq(Tail(cands), uniq)
           ELSE Uniq(Tail(cands), Append(uniq, c))

\* mutant of SlugCandidates: the joins of the unfiltered tokens are built from
\* the cleaned tokens
SlugCandidates_CleanedOnly(tokens) ==
  LET cleaned == SelectSeq(tokens, NotStopword)
      no_roman == SelectSeq(cleaned, NotRoman)
      no_digits == SelectSeq(cleaned, NotAllDigits)
      stripped_digit_suffix ==
        SelectSeq([i \in 1..Len(cleaned) |-> StripDigitSuffix(cleaned[i])], NonEmpty)
      acronym == Acronym(cleaned)
  IN  (IF cleaned # <<>> THEN BothJoins(cleaned) ELSE <<>>)
      \o BothJoins(cleaned)
      \o (IF Len(cleaned) >= 2 THEN BothJoins(SubSeq(cleaned, 1, 2)) ELSE <<>>)
      \o (IF Len(cleaned) >= 2 THEN BothJoins(SubSeq(cleaned, 1, 2)) ELSE <<>>)
      \o (IF no_roman # <<>> THEN BothJoins(no_roman) ELSE <<>>)
      \o (IF no_digits # <<>> THEN BothJoins(no_digits) ELSE <<>>)
      \o (IF stripped_digit_suffix # <<>> THEN BothJoins(stripped_digit_suffix) ELSE <<>>)
      \o PrefixJoins(cleaned, Len(cleaned) - 1)
      \o (IF 2 <= Len(cleaned) /\ Len(cleaned) <= 6 /\ acronym # <<>> THEN <<acronym>> ELSE <<>>)

\* the candidate list before the dedup loop
SlugCandidates(tokens) ==
  LET cleaned == SelectSeq(tokens, NotStopword)
      no_roman == SelectSeq(cleaned, NotRoman)
      no_digits == SelectSeq(cleaned, NotAllDigits)
      stripped_digit_suffix ==
        SelectSeq([i \in 1..Len(cleaned) |-> StripDigitSuffix(cleaned[i])], NonEmpty)
      acronym == Acronym(cleaned)
  IN  (IF cleaned # <<>> THEN BothJoins(cleaned) ELSE <<>>)
      \o BothJoins(tokens)
      \o (IF Len(cleaned) >= 2 THEN BothJoins(SubSeq(cleaned, 1, 2)) ELSE <<>>)
      \o (IF Len(tokens) >= 2 THEN BothJoins(SubSeq(tokens, 1, 2)) ELSE <<>>)
      \o (IF no_roman # <<>> THEN BothJoins(no_roman) ELSE <<>>)
      \o (IF no_digits # <<>> THEN BothJoins(no_digits) ELSE <<>>)
      \o (IF stripped_digit_suffix # <<>> THEN BothJoins(stripped_digit_suffix) ELSE <<>>)
      \o PrefixJoins(cleaned, Len(cleaned) - 1)
      \o (IF 2 <= Len(cleaned) /\ Len(cleaned) <= 6 /\ acronym # <<>> THEN <<acronym>> ELSE <<>>)

\* raises HTTPException(400) when ok is FALSE (from tokenize_topic)
candidate_slugs(topic) ==
  LET tk == tokenize_topic(topic)
  IN  IF ~tk.ok THEN [ok |-> FALSE, slugs |-> <<>>]
      ELSE [ok |-> TRUE, slugs |-> Uniq(SlugCandidates(tk.tokens), <<>>)]

(***************************************************************************)
(* Upstream responses                                                      *)
(***************************************************************************)
\* bound: longest "items" list of a hub search answer
MaxHubItems == 2

\* HTTP status codes an upstream can answer with
Statuses == {200, 404, 503}

NoBody == [json |-> FALSE, top |-> "none", query |-> "absent", search |-> "absent"]

\* bodies of a probe answer: not JSON, a JSON list, or a JSON object whose
\* "query" is absent, null, a string or an object, and whose query.search is
\* absent, null, an object, a string, an empty list or a non-empty list
ProbeBodies ==
  {NoBody, [json |-> TRUE, top |-> "list", query |-> "absent", search |-> "absent"]}
  \cup [json : {TRUE}, top : {"dict"}, query : {"absent", "null", "str"}, search : {"absent"}]
  \cup [json : {TRUE}, top : {"dict"}, query : {"dict"},
        search : {"absent", "null", "dict", "str", "empty_list", "list"}]

\* err: the request raised (connection failure, timeout) and there is no response
ProbeResponses ==
  {[err |-> TRUE, status |-> 0, body |-> NoBody]}
  \cup [err : {FALSE}, status : Statuses, body : ProbeBodies]

u_hub_fandom == <<"h","t","t","p","s",":","/","/","x",".","f","a","n","d","o","m",".","c","o","m","/","w","i","k","i","/","A">>

u_hub_wikigg == <<"h","t","t","p","s",":","/","/","y",".","w","i","k","i",".","g","g","/","w","i","k","i","/","A">>

u_hub_ftp == <<"f","t","p",":","/","/","x",".","f","a","n","d","o","m",".","c","o","m","/","A">>

u_hub_evil == <<"h","t","t","p","s",":","/","/","e","v","i","l",".","c","o","m","/","A">>

u_hub_upper == <<"H","T","T","P","S",":","/","/","Z",".","F","a","n","d","o","m",".","c","o","m">>

u_hub_noscheme == <<"/","/","x",".","f","a","n","d","o","m",".","c","o","m","/","A">>

HubUrls == {u_hub_fandom, u_hub_wikigg, u_hub_ftp, u_hub_evil, u_hub_upper, u_hub_noscheme}

\* one element of "items": not an object, an object with no (or an empty) "url",
\* an object whose "url" is not a string, or an object with a string "url"
HubItems ==
  [kind : {"nondict", "nourl", "nonstr"}, url : {<<>>}] \cup [kind : {"str"}, url : HubUrls]

HubItemLists == UNION {[1..n -> HubItems] : n \in 0..MaxHubItems}

HubBodies ==
  [json : {FALSE}, top : {"none"}, items : {"absent"}, list : {<<>>}]
  \cup [json : {TRUE}, top : {"list"}, items : {"absent"}, list : {<<>>}]
  \cup [json : {TRUE}, top : {"dict"}, items : {"absent", "null"}, list : {<<>>}]
  \cup [json : {TRUE}, top : {"dict"}, items : {"list"}, list : HubItemLists]

HubResponses ==
  [err : {TRUE}, status : {0}, body : {[json |-> FALSE, top |-> "none", items |-> "absent", list |-> <<>>]}]
  \cup [err : {FALSE}, status : Statuses, body : HubBodies]

(***************************************************************************)
(* Probe and hub lookup                                                    *)
(***************************************************************************)
\* mutant of ProbeTry: "s is not None" in place of isinstance(s, list)
ProbeTry_AnySearch(r) ==
  IF r.err THEN "raise"
  ELSE IF r.status # 200 THEN "false"
  ELSE IF ~r.body.json THEN "raise"
  ELSE IF r.body.top # "dict" THEN "raise"
  ELSE IF r.body.query \in {"absent", "null"} THEN "false"
  ELSE IF r.body.query # "dict" THEN "raise"
  ELSE IF r.body.search \in {"dict", "str", "empty_list", "list"} THEN "true" ELSE "false"

\* the try block of _probe_api: "true", "false", or "raise" when a statement throws
ProbeTry(r) ==
  IF r.err THEN "raise"
  ELSE IF r.status # 200 THEN "false"
  ELSE IF ~r.body.json THEN "raise"
  ELSE IF r.body.top # "dict" THEN "raise"
  ELSE IF r.body.query \in {"absent", "null"} THEN "false"
  ELSE IF r.body.query # "dict" THEN "raise"
  ELSE IF r.body.search \in {"empty_list", "list"} THEN "true" ELSE "false"

\* mutant of _probe_api: without the except clause an exception propagates
_probe_api_NoExcept(r) ==
  LET t == ProbeTry(r)
  IN  IF t = "raise" THEN [raised |-> TRUE, ret |-> FALSE]
      ELSE [raised |-> FALSE, ret |-> (t = "true")]

\* except Exception: return False
_probe_api(r) ==
  LET t == ProbeTry(r)
  IN  IF t = "raise" THEN [raised |-> FALSE, ret |-> FALSE]
      ELSE [raised |-> FALSE, ret |-> (t = "true")]

NoBase == [none |-> TRUE, base |-> <<>>]

\* the for loop of fandom_hub_lookup; an exception in the loop is caught by the
\* enclosing try and the function returns None
RECURSIVE HubScan(_)
\* one item with a string url: return the base when the host ends with fandom.com
HubItem(parsed, rest) ==
  IF EndsWith(parsed.hostname, s_fandom_com)
  THEN [none |-> FALSE, base |-> parsed.scheme \o s_sep \o parsed.hostname]
  ELSE HubScan(rest)

HubScan(items) ==
  IF items = <<>> THEN NoBase
  ELSE LET item == items[1]
       IN  IF item.kind = "nondict" THEN NoBase
           ELSE IF item.kind = "nourl" THEN HubScan(Tail(items))
           ELSE IF item.kind = "nonstr" THEN NoBase
           ELSE HubItem(urlparse(item.url), Tail(items))

fandom_hub_lookup(r) ==
  IF r.err THEN NoBase
  ELSE IF r.status # 200 THEN NoBase
  ELSE IF ~r.body.json THEN NoBase
  ELSE IF r.body.top # "dict" THEN NoBase
  ELSE IF r.body.items = "absent" THEN NoBase
  ELSE IF r.body.items = "null" THEN NoBase
  ELSE HubScan(r.body.list)

(***************************************************************************)
(* Request inputs                                                          *)
(***************************************************************************)
t_stopwords == <<"T","h","e"," ","O","f">>

t_onetwo == <<"o","n","e"," ","t","w","o">>

t_punct == <<"!","?">>

t_short == <<"a","b">>

t_url == <<"h","t","t","p","s",":","/","/","A",".","f","a","n","d","o","m",".","c","o","m","/","w">>

t_url_evil == <<"h","t","t","p",":","/","/","e","v","i","l",".","c","o","m">>

t_blank == <<" "," ">>

t_of == <<"O","f">>

\* topics a caller may send (the route requires at least one character):
\* two with slugs, three without (one of them a single stopword), two that
\* are URLs, one blank
Topics == {t_stopwords, t_onetwo, t_punct, t_short, t_url, t_url_evil, t_blank, t_of}

h_wikipedia == <<"e","n",".","w","i","k","i","p","e","d","i","a",".","o","r","g">>

h_fandom_upper == <<"X",".","F","a","n","d","o","m",".","c","o","m">>

h_wikigg == <<"a",".","w","i","k","i",".","g","g">>

h_evil == <<"e","v","i","l",".","c","o","m">>

h_evilfandom == <<"e","v","i","l","f","a","n","d","o","m",".","c","o","m">>

h_fandom_prefix == <<"f","a","n","d","o","m",".","c","o","m",".","e","v","i","l",".","i","o">>

\* the parts an explicit wiki URL is written from
WikiSchemes == {s_https, s_http, <<"H","T","T","P","S">>, <<"f","t","p">>, <<>>}

WikiHosts == {h_wikipedia, h_fandom_upper, h_wikigg, h_evil, h_evilfandom, h_fandom_prefix, <<>>}

WikiPorts == {<<>>, <<":","8","0","8","0">>}

WikiPaths == {<<>>, <<"/">>, <<"/","w","i","k","i","/","F","o","o","?","a","=","b">>}

WikiUsers == {<<>>, <<"u","@">>}

WikiPads == {<<>>, <<" ">>}

WikiParts ==
  [scheme : WikiSchemes, user : WikiUsers, host : WikiHosts, port : WikiPorts,
   path : WikiPaths, pad : WikiPads]

\* the text of the URL with these parts
WikiUrl(p) ==
  p.pad \o (IF p.scheme = <<>> THEN <<>> ELSE p.scheme \o s_sep)
        \o p.user \o p.host \o p.port \o p.path \o p.pad

\* the wiki query parameter: absent (None) or a string, possibly empty
WikiInputs ==
  {[none |-> TRUE, url |-> <<>>], [none |-> FALSE, url |-> <<>>]}
  \cup {[none |-> FALSE, url |-> WikiUrl(p)] : p \in WikiParts}

(***************************************************************************)
(* Title canonicalization: pure parts                                      *)
(***************************************************************************)
s_wiki_path == <<"/","w","i","k","i","/">>

s_episode == <<"e","p","i","s","o","d","e">>

s_episode_us == <<"e","p","i","s","o","d","e","_">>

s_Episode_us == <<"E","p","i","s","o","d","e","_">>

\* str.upper() on one character
UpperChar(c) ==
  IF c \in Range(LowerLetters)
  THEN UpperLetters[CHOOSE i \in 1..Len(LowerLetters) : LowerLetters[i] = c]
  ELSE c

\* str.title(): a letter is upper-cased after a non-letter (or at the start)
\* and lower-cased after a letter
TitleCase(s) ==
  [i \in 1..Len(s) |->
     IF ~IsAlpha(s[i]) THEN s[i]
     ELSE IF i = 1 \/ ~IsAlpha(s[i - 1]) THEN UpperChar(s[i]) ELSE LowerChar(s[i])]

\* str.replace(a, b) for one-character a and b
ReplaceChar(s, a, b) == [i \in 1..Len(s) |-> IF s[i] = a THEN b ELSE s[i]]

\* t.isdigit() on a non-empty string
AllDigits(t) == t # <<>> /\ \A i \in 1..Len(t) : IsDigitChar(t[i])

DigitValue(c) == CHOOSE n \in 0..9 : ToString(n) = c

\* int(t) for a string of digits
RECURSIVE DigitsToNat(_)
DigitsToNat(t) ==
  IF t = <<>> THEN 0 ELSE 10 * DigitsToNat(SubSeq(t, 1, Len(t) - 1)) + DigitValue(t[Len(t)])

\* str(n) for n >= 0, as a sequence of characters
RECURSIVE NatToDigits(_)
NatToDigits(n) ==
  IF n < 10 THEN <<ToString(n)>> ELSE NatToDigits(n \div 10) \o <<ToString(n % 10)>>

\* the part of s that (episode\s*)? leaves to 0*(\d+): the regex engine first
\* tries the group, then retries without it
AfterEpisodePrefix(s) ==
  IF StartsWith(s, s_episode) /\ AllDigits(LStrip(Slice(s, Len(s_episode) + 1, Len(s))))
  THEN LStrip(Slice(s, Len(s_episode) + 1, Len(s)))
  ELSE s

\* re.fullmatch(r"(episode\s*)?0*(\d+)", s) and the two branches after it
EpisodeOfLowered(s, digits) ==
  IF AllDigits(digits)
  THEN [none |-> FALSE, title |-> s_Episode_us \o NatToDigits(DigitsToNat(digits))]
  ELSE IF StartsWith(s, s_episode_us)
  THEN [none |-> FALSE, title |-> ReplaceChar(TitleCase(s), " ", "_")]
  ELSE [none |-> TRUE, title |-> <<>>]

EpisodeOfStripped(s) == EpisodeOfLowered(s, AfterEpisodePrefix(s))

\* mutant of normalize_episode_title: the title is stripped but not lower-cased
normalize_episode_title_NoLower(raw) == EpisodeOfStripped(Strip(raw))

normalize_episode_title(raw) == EpisodeOfStripped(Lower(Strip(raw)))

\* lookup_title = episode_title or title
LookupOf(episode_title, title) == IF episode_title.none THEN title ELSE episode_title.title

LookupTitle(title) == LookupOf(normalize_episode_title(title), title)

\* urllib.parse.quote on one character: letters, digits and _.-~/ are kept,
\* the other characters of the model's alphabet become %XX
QuoteChar(c) ==
  IF IsAlnum(c) \/ c \in {"_", ".", "-", "~", "/"} THEN <<c>>
  ELSE IF c = " " THEN <<"%","2","0">>
  ELSE IF c = "," THEN <<"%","2","C">>
  ELSE IF c = "%" THEN <<"%","2","5">>
  ELSE IF c = ":" THEN <<"%","3","A">>
  ELSE IF c = "?" THEN <<"%","3","F">>
  ELSE <<"%","2","1">>

RECURSIVE quote(_)
quote(s) == IF s = <<>> THEN <<>> ELSE QuoteChar(s[1]) \o quote(Tail(s))

page_url(base, title) == base \o s_wiki_path \o quote(ReplaceChar(title, " ", "_"))

\* position of the first occurrence of "/wiki/" in s; 0 when there is none
FindWiki(s) ==
  IF \E i \in 1..(Len(s) - 5) : SubSeq(s, i, i + 5) = s_wiki_path
  THEN CHOOSE i \in 1..(Len(s) - 5) :
         SubSeq(s, i, i + 5) = s_wiki_path /\ \A j \in 1..(i - 1) : SubSeq(s, j, j + 5) # s_wiki_path
  ELSE 0

\* final.split("/wiki/", 1)[1].replace("_", " ")
SegmentAt(final, i) == ReplaceChar(Slice(final, i + 6, Len(final)), "_", " ")

NoTitle == [none |-> TRUE, title |-> <<>>]

TitleAt(final, i) ==
  IF i = 0 THEN NoTitle ELSE [none |-> FALSE, title |-> SegmentAt(final, i)]

\* the part of resolve_via_http_redirect after the request: None when the
\* final URL has no "/wiki/"
TitleOfFinal(final) == TitleAt(final, FindWiki(final))

(***************************************************************************)
(* Title canonicalization: inputs and upstream answers                     *)
(***************************************************************************)
b_fandom == <<"h","t","t","p","s",":","/","/","x",".","f","a","n","d","o","m",".","c","o","m">>

b_wikigg == <<"h","t","t","p","s",":","/","/","a",".","w","i","k","i",".","g","g">>

b_wikipedia == <<"h","t","t","p","s",":","/","/","e","n",".","w","i","k","i","p","e","d","i","a",".","o","r","g">>

b_ftp == <<"f","t","p",":","/","/","x",".","f","a","n","d","o","m",".","c","o","m">>

\* bases resolve_with_optional_base hands to the page route: one per platform,
\* and one with the scheme of a hub hit
PageBases == {b_fandom, b_wikigg, b_wikipedia, b_ftp}

p_episode == <<"E","p","i","s","o","d","e"," ","0","1">>

p_comma == <<"A",",","B"," ","c">>

p_episode_us == <<"e","p","i","s","o","d","e","_","x">>

\* the title parameter: absent (or empty), an episode shorthand, a title with a
\* space and a comma, a title that begins with episode_
PageTitles == {<<>>, p_episode, p_comma, p_episode_us}

p_canon == <<"C","a","n","o","n"," ","A">>

\* status codes of an action API answer
ApiStatuses == {200, 301, 404, 503}

\* bodies of an action API answer, by what resolve_title finds in them:
\*   nojson    not JSON                    list      JSON, but not an object
\*   noquery   no "query" (or a falsy one) badquery  "query" is a string
\*   nopages   no "pages" (or none in it)  badpages  "pages" is a non-empty list
\*   missing   the page has "missing"      badpage   the page is a number
\*   notitle   the page has no "title"     title     the page has this title
ApiBodies ==
  [shape : {"nojson", "list", "noquery", "badquery", "nopages", "badpages",
            "missing", "badpage", "notitle"}, title : {<<>>}]
  \cup [shape : {"title"}, title : {p_canon}]

NoApiBody == [shape |-> "nojson", title |-> <<>>]

\* err: client.get raised (connection failure, timeout)
ApiResponses ==
  {[err |-> TRUE, status |-> 0, body |-> NoApiBody]}
  \cup [err : {FALSE}, status : ApiStatuses, body : ApiBodies]

s_storm == <<"T","h","e","_","S","t","o","r","m","%","2","C","_","V">>

\* where a HEAD request to url can end: at url itself, at a redirect target
\* with a percent-escape, at the wiki's root, or at an empty page name
HeadFinals(url) ==
  { url,
    SubSeq(url, 1, FindWiki(url) - 1) \o s_wiki_path \o s_storm,
    SubSeq(url, 1, FindWiki(url) - 1) \o <<"/">>,
    SubSeq(url, 1, FindWiki(url) - 1) \o s_wiki_path }

\* err: client.head raised; the client raises for a URL that is not http(s)
HeadResponses(url) ==
  {[err |-> TRUE, final |-> <<>>]}
  \cup (IF urlparse(url).scheme \in {s_http, s_https}
        THEN [err : {FALSE}, final : HeadFinals(url)]
        ELSE {})

(***************************************************************************)
(* State                                                                   *)
(***************************************************************************)
VARIABLES
  pc,       \* "idle"; "probing": a probe request is in flight; "probed": its answer arrived;
            \* "hub": the hub request is in flight; "hubbed": its answer arrived; "done"
  topic,    \* the topic parameter of the request
  wiki,     \* the wiki parameter of the request
  slugs,    \* resolve_topic's slugs
  pos,      \* position of resolve_topic's nested loops: the probe being awaited
  calls,    \* outbound calls issued for this request, in order
  resp,     \* the answer _probe_api is resumed with
  hubResp,  \* the answer fandom_hub_lookup was resumed with
  result,   \* what resolve_with_optional_base returned or raised
  apiBase,  \* the argument candidate_action_apis is called with (specification SpecApis)
  endpoints, \* what that call returned or raised
  pageBase, \* page's base: what resolve_with_optional_base returned
  title,    \* page's title parameter; <<>> when absent
  lookup_title,   \* page's lookup_title
  resolved_title, \* page's resolved_title
  api_i,    \* mediawiki_get: position of its loop over the endpoints
  apiResp,  \* the answer mediawiki_get's request is resumed with
  headResp, \* the answer resolve_via_http_redirect's request is resumed with
  fetched,  \* mediawiki_get: what it returned or raised, and its last_status
  extract_text, \* page: the visible text of the page that was parsed
  chunk_size,   \* page's chunk_size parameter
  chunks,       \* what page answered in chunk mode, for each chunk index asked for
  reqs      \* the requests being served at the same time (specification SpecConc):
            \* each one's own pc, topic, wiki, slugs, pos, calls, resp, hubResp, result,
            \* and hist: the upstream answers it has been resumed with, in order

\* the variables of the title stage of the page route
pageVars == <<pageBase, title, lookup_title, resolved_title, api_i, apiResp, headResp, fetched>>

\* the variables of the chunk mode of the page route
chunkVars == <<extract_text, chunk_size, chunks>>

vars ==
  <<pc, topic, wiki, slugs, pos, calls, resp, hubResp, result, apiBase, endpoints, pageVars,
    chunkVars, reqs>>

\* the variables the resolution leaves alone
fnVars == <<apiBase, endpoints, pageVars, chunkVars, reqs>>

NoPos == [st |-> "none", si |-> 0, bi |-> 0, ai |-> 0, base |-> <<>>, api |-> <<>>]

NoResult == [status |-> "none", code |-> 0, base |-> <<>>, method |-> "none"]

Returned(base, method) == [status |-> "ok", code |-> 200, base |-> base, method |-> method]

\* raise HTTPException(status_code=code); 500 stands for an unhandled exception
Raised(code) == [status |-> "error", code |-> code, base |-> <<>>, method |-> "none"]

NoProbeResp == [err |-> FALSE, status |-> 0, body |-> NoBody]

NoHubResp ==
  [err |-> FALSE, status |-> 0, body |-> [json |-> FALSE, top |-> "none", items |-> "absent", list |-> <<>>]]

s_hub_search ==
  <<"h","t","t","p","s",":","/","/","w","w","w",".","f","a","n","d","o","m",".","c","o","m","/","a","p","i","/","v","1","/","S","e","a","r","c","h","/","L","i","s","t">>

\* mediawiki_get has not run
NoFetch == [st |-> "none", code |-> 0, last_status |-> 0]

NoApiResp == [err |-> FALSE, status |-> 0, body |-> NoApiBody]

NoHeadResp == [err |-> FALSE, final |-> <<>>]

\* no page request is being served
InitPage ==
  /\ pageBase = <<>>
  /\ title = <<>>
  /\ lookup_title = <<>>
  /\ resolved_title = NoTitle
  /\ api_i = 0
  /\ apiResp = NoApiResp
  /\ headResp = NoHeadResp
  /\ fetched = NoFetch

\* a request slot that serves no request
IdleReq ==
  [pc |-> "idle", topic |-> <<>>, wiki |-> [none |-> TRUE, url |-> <<>>], slugs |-> <<>>,
   pos |-> NoPos, calls |-> <<>>, resp |-> NoProbeResp, hubResp |-> NoHubResp,
   result |-> NoResult, hist |-> <<>>]

\* bound: how many requests are served at the same time
MaxRequests == 2

Requests == 1..MaxRequests

\* bound: the highest chunk index a client asks for
MaxChunk == 4

\* this chunk index has not been asked for
NoChunk == [status |-> 0, total_chunks |-> 0, is_last_chunk |-> FALSE, extract |-> <<>>]

\* no page is being read in chunk mode
InitChunks ==
  /\ extract_text = <<>>
  /\ chunk_size = 0
  /\ chunks = [c \in 0..MaxChunk |-> NoChunk]

\* no request is being served
InitReqs == reqs = [i \in Requests |-> IdleReq]

Init ==
  /\ InitPage
  /\ InitChunks
  /\ InitReqs
  /\ pc = "idle"
  /\ topic = <<>>
  /\ wiki = [none |-> TRUE, url |-> <<>>]
  /\ slugs = <<>>
  /\ pos = NoPos
  /\ calls = <<>>
  /\ resp = NoProbeResp
  /\ hubResp = NoHubResp
  /\ result = NoResult
  /\ apiBase = <<>>
  /\ endpoints = [ok |-> FALSE, apis |-> <<>>]

(***************************************************************************)
(* resolve_topic and resolve_with_optional_base                            *)
(***************************************************************************)
\* mutant of raw_bases: wiki.gg is tried before fandom.com
raw_bases_WikiGgFirst(slug) ==
  << s_https \o s_sep \o slug \o <<".">> \o s_wiki_gg,
     s_https \o s_sep \o slug \o <<".">> \o s_fandom_com >>

\* the tuple resolve_topic iterates for one slug
raw_bases(slug) ==
  << s_https \o s_sep \o slug \o <<".">> \o s_fandom_com,
     s_https \o s_sep \o slug \o <<".">> \o s_wiki_gg >>

\* the nested for loops of resolve_topic, run from loop position (si, bi, ai)
\* up to the next await of _probe_api: "probe" with the base and endpoint to
\* probe, "exhausted" when the loops end, "raise400" when normalize_base raises
RECURSIVE Seek(_, _, _, _)
\* for api in candidate_action_apis(base)
SeekApi(sl, si, bi, ai, base, apis) ==
  IF ai > Len(apis) THEN Seek(sl, si, bi + 1, 1)
  ELSE [st |-> "probe", si |-> si, bi |-> bi, ai |-> ai, base |-> base, api |-> apis[ai]]

\* base = normalize_base(raw_base); if not host_is_allowed(base): continue
SeekBase(sl, si, bi, ai, nb) ==
  IF ~nb.ok THEN [NoPos EXCEPT !.st = "raise400"]
  ELSE IF ~host_is_allowed(nb.base) THEN Seek(sl, si, bi + 1, 1)
  ELSE SeekApi(sl, si, bi, ai, nb.base, candidate_action_apis(nb.base).apis)

\* mutant of Seek: the loop over the slugs ends after the first slug
Seek_FirstSlugOnly(sl, si, bi, ai) ==
  IF si > Len(sl) \/ si > 1 THEN [NoPos EXCEPT !.st = "exhausted"]
  ELSE IF bi > Len(raw_bases(sl[si])) THEN Seek(sl, si + 1, 1, 1)
  ELSE SeekBase(sl, si, bi, ai, normalize_base(raw_bases(sl[si])[bi]))

\* for slug in slugs: for raw_base in (...)
Seek(sl, si, bi, ai) ==
  IF si > Len(sl) THEN [NoPos EXCEPT !.st = "exhausted"]
  ELSE IF bi > Len(raw_bases(sl[si])) THEN Seek(sl, si + 1, 1, 1)
  ELSE SeekBase(sl, si, bi, ai, normalize_base(raw_bases(sl[si])[bi]))

ExplicitNormalized(nb) ==
  IF ~nb.ok THEN Raised(400)
  ELSE IF ~host_is_allowed(nb.base) THEN Raised(403)
  ELSE Returned(nb.base, "explicit")

\* the explicit branch shared by resolve_with_optional_base and resolve_topic
Explicit(url) == ExplicitNormalized(normalize_base(url))

\* an outbound request is sent: it is logged as pending until it is answered
Issue(cl, kind, url) == Append(cl, [kind |-> kind, url |-> url, st |-> "pending"])

\* the last request of the log has been answered: "ok", "fail" or "raised"
Settle(cl, st) == [cl EXCEPT ![Len(cl)].st = st]

\* where control goes after a loop position has been computed: into
\* _probe_api's request, into fandom_hub_lookup's request, or out with a 400
EnterLoops(p, cl) ==
  /\ pos' = p
  /\ pc' = IF p.st = "probe" THEN "probing" ELSE IF p.st = "exhausted" THEN "hub" ELSE "done"
  /\ result' = IF p.st = "raise400" THEN Raised(400) ELSE NoResult
  /\ calls' = IF p.st = "probe" THEN Issue(cl, "probe", p.api)
              ELSE IF p.st = "exhausted" THEN Issue(cl, "hub", s_hub_search)
              ELSE cl

\* control leaves resolve_with_optional_base without an outbound call
Finish(res) ==
  /\ result' = res
  /\ pc' = "done"
  /\ slugs' = <<>>
  /\ pos' = NoPos
  /\ calls' = <<>>

\* slugs = candidate_slugs(topic), then the loops up to the first await
StartLoops(cs) ==
  IF ~cs.ok THEN Finish(Raised(400))
  ELSE /\ slugs' = cs.slugs
       /\ EnterLoops(Seek(cs.slugs, 1, 1, 1), <<>>)

\* GET /resolve: resolve_with_optional_base(topic, wiki) up to its first await
Resolve(t, w) ==
  /\ pc = "idle"
  /\ topic' = t
  /\ wiki' = w
  /\ resp' = NoProbeResp
  /\ hubResp' = NoHubResp
  /\ UNCHANGED fnVars
  /\ IF ~w.none /\ w.url # <<>>
     THEN Finish(Explicit(w.url))
     ELSE IF StartsWith(t, s_http \o s_sep) \/ StartsWith(t, s_https \o s_sep)
     THEN Finish(Explicit(t))
     ELSE StartLoops(candidate_slugs(t))

\* mutant of AfterProbe: a successful probe does not end the loops
AfterProbe_KeepProbing(p) ==
  EnterLoops(Seek(slugs, pos.si, pos.bi, pos.ai + 1),
             Settle(calls, IF p.ret THEN "ok" ELSE "fail"))

\* mutant of AfterProbe: a failed probe is tried again instead of moving on
AfterProbe_Retry(p) ==
  IF p.raised
  THEN /\ result' = Raised(500)
       /\ pc' = "done"
       /\ pos' = pos
       /\ calls' = Settle(calls, "raised")
  ELSE IF p.ret
  THEN /\ result' = Returned(pos.base, "slug")
       /\ pc' = "done"
       /\ pos' = pos
       /\ calls' = Settle(calls, "ok")
  ELSE EnterLoops(Seek(slugs, pos.si, pos.bi, pos.ai), Settle(calls, "fail"))

\* what resolve_topic does with the value (or exception) of one _probe_api call
AfterProbe(p) ==
  IF p.raised
  THEN /\ result' = Raised(500)
       /\ pc' = "done"
       /\ pos' = pos
       /\ calls' = Settle(calls, "raised")
  ELSE IF p.ret
  THEN /\ result' = Returned(pos.base, "slug")
       /\ pc' = "done"
       /\ pos' = pos
       /\ calls' = Settle(calls, "ok")
  ELSE EnterLoops(Seek(slugs, pos.si, pos.bi, pos.ai + 1), Settle(calls, "fail"))

\* r = await client.get(api_url, params=params) completes with answer r
ProbeReply(r) ==
  /\ pc = "probing"
  /\ pc' = "probed"
  /\ resp' = r
  /\ UNCHANGED <<topic, wiki, slugs, pos, calls, hubResp, result, fnVars>>

\* the rest of _probe_api, then resolve_topic's loops up to the next await
ProbeReturn ==
  /\ pc = "probed"
  /\ resp' = NoProbeResp
  /\ AfterProbe(_probe_api(resp))
  /\ UNCHANGED <<topic, wiki, slugs, hubResp, fnVars>>

\* mutant of AfterHub: a hub result is reported with the method of a direct probe
AfterHub_MethodSlug(fandom_base) ==
  IF ~fandom_base.none /\ host_is_allowed(fandom_base.base)
  THEN /\ calls' = Settle(calls, "ok")
       /\ result' = Returned(fandom_base.base, "slug")
  ELSE /\ calls' = Settle(calls, "fail")
       /\ result' = Raised(404)

\* if fandom_base and host_is_allowed(fandom_base): return, else raise 404
AfterHub(fandom_base) ==
  IF ~fandom_base.none /\ host_is_allowed(fandom_base.base)
  THEN /\ calls' = Settle(calls, "ok")
       /\ result' = Returned(fandom_base.base, "fandom_hub")
  ELSE /\ calls' = Settle(calls, "fail")
       /\ result' = Raised(404)

\* r = await client.get(search_url, params=params) completes with answer r
HubReply(r) ==
  /\ pc = "hub"
  /\ pc' = "hubbed"
  /\ hubResp' = r
  /\ UNCHANGED <<topic, wiki, slugs, pos, calls, resp, result, fnVars>>

\* the rest of fandom_hub_lookup, then the end of resolve_topic
HubReturn ==
  /\ pc = "hubbed"
  /\ AfterHub(fandom_hub_lookup(hubResp))
  /\ pc' = "done"
  /\ UNCHANGED <<topic, wiki, slugs, pos, resp, hubResp, fnVars>>

\* the response is sent; the next request starts from nothing
Respond ==
  /\ pc = "done"
  /\ pc' = "idle"
  /\ topic' = <<>>
  /\ wiki' = [none |-> TRUE, url |-> <<>>]
  /\ slugs' = <<>>
  /\ pos' = NoPos
  /\ calls' = <<>>
  /\ resp' = NoProbeResp
  /\ hubResp' = NoHubResp
  /\ result' = NoResult
  /\ UNCHANGED fnVars

\* the body of the /resolve answer
resolve ==
  [topic |-> topic, wiki |-> result.base, resolution_method |-> result.method]

Next ==
  \/ \E t \in Topics, w \in WikiInputs : Resolve(t, w)
  \/ \E r \in ProbeResponses : ProbeReply(r)
  \/ ProbeReturn
  \/ \E r \in HubResponses : HubReply(r)
  \/ HubReturn
  \/ Respond

Spec == Init /\ [][Next]_vars

\* ProbeReturn is enabled exactly in the states with pc = "probed", and each of
\* its steps leaves "probed"; an action with the same enabling condition states
\* its weak fairness without evaluating _probe_api and the loops under ENABLED
ProbeResumed ==
  /\ pc = "probed"
  /\ pc' = "done"
  /\ UNCHANGED <<topic, wiki, slugs, pos, calls, resp, hubResp, result, fnVars>>

\* the same for HubReturn, which is enabled exactly when pc = "hubbed"
HubResumed ==
  /\ pc = "hubbed"
  /\ pc' = "done"
  /\ UNCHANGED <<topic, wiki, slugs, pos, calls, resp, hubResp, result, fnVars>>

\* every request the clients send carries timeout=HTTP_TIMEOUT, so each one is
\* answered or raises, and the event loop resumes the coroutine that awaits it:
\* no behaviour stays forever in "probing", "probed", "hub" or "hubbed"
Fairness ==
  /\ WF_vars(\E r \in ProbeResponses : ProbeReply(r))
  /\ WF_vars(ProbeResumed)
  /\ WF_vars(\E r \in HubResponses : HubReply(r))
  /\ WF_vars(HubResumed)

SpecLive == Init /\ [][Next]_vars /\ Fairness

(***************************************************************************)
(* candidate_action_apis on its own: any URL text as the argument          *)
(***************************************************************************)
ApiBaseInputs == {w.url : w \in WikiInputs}

InitApis ==
  /\ InitPage
  /\ InitChunks
  /\ InitReqs
  /\ pc = "apis_call"
  /\ apiBase \in ApiBaseInputs
  /\ endpoints = [ok |-> FALSE, apis |-> <<>>]
  /\ topic = <<>>
  /\ wiki = [none |-> TRUE, url |-> <<>>]
  /\ slugs = <<>>
  /\ pos = NoPos
  /\ calls = <<>>
  /\ resp = NoProbeResp
  /\ hubResp = NoHubResp
  /\ result = NoResult

\* endpoints = candidate_action_apis(apiBase)
CallApis ==
  /\ pc = "apis_call"
  /\ pc' = "apis_ret"
  /\ endpoints' = candidate_action_apis(apiBase)
  /\ UNCHANGED <<topic, wiki, slugs, pos, calls, resp, hubResp, result, apiBase, pageVars,
                 chunkVars, reqs>>

NextApis == CallApis

SpecApis == InitApis /\ [][NextApis]_vars

(***************************************************************************)
(* candidate_slugs on its own: topics written from a vocabulary            *)
(***************************************************************************)
\* bound: most words of a topic
MaxTopicWords == 3

\* an empty word stands for an extra space; the others are a capitalised
\* stopword, two stopwords shorter than a slug, a short word, a roman numeral,
\* a word with a digit suffix, a number and a word with punctuation
SlugWords ==
  { <<>>, <<"T","h","e">>, <<"o","f">>, <<"a">>, <<"a","b">>, <<"I","I">>, <<"s","2">>, <<"1","2">>, <<"x",":","y">> }

SlugTopics ==
  UNION {{JoinWith(ws, <<" ">>) : ws \in [1..n -> SlugWords]} : n \in 1..MaxTopicWords}

InitSlugs ==
  /\ InitPage
  /\ InitChunks
  /\ InitReqs
  /\ pc = "slugs_call"
  /\ topic \in SlugTopics
  /\ wiki = [none |-> TRUE, url |-> <<>>]
  /\ slugs = <<>>
  /\ pos = NoPos
  /\ calls = <<>>
  /\ resp = NoProbeResp
  /\ hubResp = NoHubResp
  /\ result = NoResult
  /\ apiBase = <<>>
  /\ endpoints = [ok |-> FALSE, apis |-> <<>>]

\* what the call leaves behind: the slugs, or the 400 it raised
SlugsReturn(cs) ==
  /\ slugs' = cs.slugs
  /\ result' = IF cs.ok THEN NoResult ELSE Raised(400)

\* slugs = candidate_slugs(topic)
CallSlugs ==
  /\ pc = "slugs_call"
  /\ pc' = "slugs_ret"
  /\ SlugsReturn(candidate_slugs(topic))
  /\ UNCHANGED <<topic, wiki, pos, calls, resp, hubResp, fnVars>>

NextSlugs == CallSlugs

SpecSlugs == InitSlugs /\ [][NextSlugs]_vars

(***************************************************************************)
(* The title stage of the page route: resolve_title over mediawiki_get,    *)
(* then resolve_via_http_redirect                                          *)
(***************************************************************************)
\* the variables of the resolution that the title stage leaves alone
resolveVars == <<topic, wiki, slugs, pos, resp, hubResp, apiBase, endpoints, chunkVars, reqs>>

InitResolve ==
  /\ InitReqs
  /\ topic = <<>>
  /\ wiki = [none |-> TRUE, url |-> <<>>]
  /\ slugs = <<>>
  /\ pos = NoPos
  /\ resp = NoProbeResp
  /\ hubResp = NoHubResp
  /\ apiBase = <<>>
  /\ endpoints = [ok |-> FALSE, apis |-> <<>>]

\* base has been resolved and the title parameter read
InitTitle ==
  /\ InitResolve
  /\ InitChunks
  /\ pc = "page_title"
  /\ pageBase \in PageBases
  /\ title \in PageTitles
  /\ lookup_title = <<>>
  /\ resolved_title = NoTitle
  /\ api_i = 0
  /\ apiResp = NoApiResp
  /\ headResp = NoHeadResp
  /\ fetched = NoFetch
  /\ calls = <<>>
  /\ result = NoResult

\* mediawiki_get raised HTTPException(code)
FetchRaised(code, ls) == [st |-> "raised", code |-> code, last_status |-> ls]

\* mediawiki_get returned r.json()
FetchReturned == [st |-> "returned", code |-> 200, last_status |-> 200]

\* r = await client.get(api, params=params) is sent for the i-th endpoint
SendApi(cl, i, apis, ls) ==
  /\ pc' = "api"
  /\ calls' = Issue(cl, "api", apis[i])
  /\ api_i' = i
  /\ fetched' = [NoFetch EXCEPT !.last_status = ls]
  /\ resolved_title' = NoTitle
  /\ result' = NoResult

\* resolve_title raised an HTTPException: page's except clause calls
\* resolve_via_http_redirect, which sends its HEAD request
SendHead(cl, f, lt) ==
  /\ pc' = "head"
  /\ calls' = Issue(cl, "head", page_url(pageBase, lt))
  /\ api_i' = api_i
  /\ fetched' = f
  /\ resolved_title' = NoTitle
  /\ result' = NoResult

\* the title stage is left: with resolved_title set, or by an exception
TitleDone(cl, f, rt, res) ==
  /\ pc' = "title_done"
  /\ calls' = cl
  /\ api_i' = api_i
  /\ fetched' = f
  /\ resolved_title' = rt
  /\ result' = res

\* mediawiki_get up to its first request: normalize_base and the allow-list
EnterFetch(nb, lt) ==
  IF ~nb.ok THEN SendHead(<<>>, FetchRaised(400, 0), lt)
  ELSE IF ~host_is_allowed(nb.base) THEN SendHead(<<>>, FetchRaised(403, 0), lt)
  ELSE SendApi(<<>>, 1, candidate_action_apis(nb.base).apis, 0)

\* lookup_title = episode_title or title; resolve_title(base, lookup_title)
StartLookup(lt) ==
  /\ lookup_title' = lt
  /\ EnterFetch(normalize_base(pageBase), lt)

\* page, lines 677-689, up to the first await
PageTitle ==
  /\ pc = "page_title"
  /\ IF title = <<>>
     THEN /\ lookup_title' = lookup_title
          /\ TitleDone(calls, fetched, NoTitle, NoResult)
     ELSE StartLookup(LookupTitle(title))
  /\ UNCHANGED <<pageBase, title, apiResp, headResp, resolveVars>>

\* r = await client.get(api, params=params) completes with answer r
ApiReply(r) ==
  /\ pc = "api"
  /\ pc' = "api_got"
  /\ apiResp' = r
  /\ UNCHANGED <<pageBase, title, lookup_title, resolved_title, api_i, headResp, fetched,
                 calls, result, resolveVars>>

\* how one endpoint answered, as mediawiki_get tells the answers apart
ApiOutcome(r) ==
  IF r.err THEN "transport"
  ELSE IF r.status # 200 THEN (IF r.status >= 400 THEN "error" ELSE "other")
  ELSE IF r.body.shape = "nojson" THEN "nojson"
  ELSE "ok"

\* resolve_title after mediawiki_get returned data: "raise" when a statement
\* throws something that is not an HTTPException, "missing" for its 404
PageOf(body) ==
  IF body.shape \in {"list", "badquery", "badpages", "badpage"} THEN "raise"
  ELSE IF body.shape \in {"noquery", "nopages", "missing"} THEN "missing"
  ELSE "title"

\* return page.get("title") or title
TitleOfPage(body, lt) == [none |-> FALSE, title |-> IF body.shape = "title" THEN body.title ELSE lt]

\* the rest of resolve_title, and what page does with its value or exception
AfterFetch(body, cl) ==
  IF PageOf(body) = "raise" THEN TitleDone(cl, FetchReturned, NoTitle, Raised(500))
  ELSE IF PageOf(body) = "missing" THEN SendHead(cl, FetchReturned, lookup_title)
  ELSE TitleDone(cl, FetchReturned, TitleOfPage(body, lookup_title), NoResult)

\* mutant of NextApi: the loop ends after the first endpoint
NextApi_PrimaryOnly(cl, apis, ls) == SendHead(cl, FetchRaised(502, ls), lookup_title)

\* the loop of mediawiki_get goes on: the next endpoint, or the 502 after the last
NextApi(cl, apis, ls) ==
  IF api_i + 1 <= Len(apis) THEN SendApi(cl, api_i + 1, apis, ls)
  ELSE SendHead(cl, FetchRaised(502, ls), lookup_title)

\* mediawiki_get resumed with the answer r of its request
AfterApi(r, cl, apis) ==
  IF r.err THEN NextApi(cl, apis, fetched.last_status)
  ELSE IF r.status # 200 THEN NextApi(cl, apis, r.status)
  ELSE IF r.body.shape = "nojson" THEN NextApi(cl, apis, 200)
  ELSE AfterFetch(r.body, cl)

ApiReturn ==
  /\ pc = "api_got"
  /\ AfterApi(apiResp, Settle(calls, ApiOutcome(apiResp)), candidate_action_apis(pageBase).apis)
  /\ UNCHANGED <<pageBase, title, lookup_title, apiResp, headResp, resolveVars>>

\* r = await client.head(url) completes with answer r
HeadReply(r) ==
  /\ pc = "head"
  /\ pc' = "head_got"
  /\ headResp' = r
  /\ UNCHANGED <<pageBase, title, lookup_title, resolved_title, api_i, apiResp, fetched,
                 calls, result, resolveVars>>

\* resolve_via_http_redirect's value: None when the request raised
FallbackOf(r) == IF r.err THEN NoTitle ELSE TitleOfFinal(r.final)

\* resolved_title = fallback or lookup_title
AfterHead(fallback) ==
  IF fallback.none \/ fallback.title = <<>>
  THEN TitleDone(Settle(calls, "fail"), fetched, [none |-> FALSE, title |-> lookup_title], NoResult)
  ELSE TitleDone(Settle(calls, "ok"), fetched, fallback, NoResult)

HeadReturn ==
  /\ pc = "head_got"
  /\ AfterHead(FallbackOf(headResp))
  /\ UNCHANGED <<pageBase, title, lookup_title, apiResp, headResp, resolveVars>>

\* the URL of the request in flight
UrlInFlight == IF calls = <<>> THEN <<>> ELSE calls[Len(calls)].url

NextTitle ==
  \/ PageTitle
  \/ \E r \in ApiResponses : ApiReply(r)
  \/ ApiReturn
  \/ \E r \in HeadResponses(UrlInFlight) : HeadReply(r)
  \/ HeadReturn

SpecTitle == InitTitle /\ [][NextTitle]_vars

(***************************************************************************)
(* normalize_episode_title on its own: titles written from parts           *)
(***************************************************************************)
EpisodeParts ==
  [pad : {<<>>, <<" ">>},
   prefix : {<<>>, s_episode, <<"E","p","i","s","o","d","e">>, <<"E","P","I","S","O","D","E">>, s_episode_us, <<"e","p">>},
   gap : {<<>>, <<" ">>, <<" ", " ">>},
   zeros : {<<>>, <<"0">>, <<"0", "0">>},
   digits : {<<>>, <<"1">>, <<"1", "2">>, <<"1", "0">>, <<"0">>},
   tail : {<<>>, <<"a">>}]

\* the text of the title with these parts
EpisodeTitle(p) == p.pad \o p.prefix \o p.gap \o p.zeros \o p.digits \o p.tail \o p.pad

EpisodeTitles == {EpisodeTitle(p) : p \in EpisodeParts} \ {<<>>}

InitEpisode ==
  /\ InitResolve
  /\ InitChunks
  /\ pc = "episode_call"
  /\ pageBase = <<>>
  /\ title \in EpisodeTitles
  /\ lookup_title = <<>>
  /\ resolved_title = NoTitle
  /\ api_i = 0
  /\ apiResp = NoApiResp
  /\ headResp = NoHeadResp
  /\ fetched = NoFetch
  /\ calls = <<>>
  /\ result = NoResult

\* episode_title = normalize_episode_title(title); lookup_title = episode_title or title
CallEpisode ==
  /\ pc = "episode_call"
  /\ pc' = "episode_ret"
  /\ lookup_title' = LookupTitle(title)
  /\ UNCHANGED <<pageBase, title, resolved_title, api_i, apiResp, headResp, fetched,
                 calls, result, resolveVars>>

NextEpisode == CallEpisode

SpecEpisode == InitEpisode /\ [][NextEpisode]_vars

(***************************************************************************)
(* Specification SpecConc: requests served at the same time.  Each call    *)
(* of resolve_with_optional_base is a coroutine of its own: its arguments  *)
(* and locals (slugs, the loop position, the client it opens) live in its  *)
(* frame, and the module has no mutable global.  The event loop runs one   *)
(* coroutine at a time, from one await to the next.                        *)
(***************************************************************************)
t_abc == <<"a","b","c">>

\* a topic with one slug (four probes) and a topic with none (the hub lookup at once)
ConcTopics == {t_abc, t_short}

\* the wiki parameter: absent, or the URL of an allowed wiki
ConcWikis == {[none |-> TRUE, url |-> <<>>], [none |-> FALSE, url |-> u_hub_wikigg]}

r_not_found == [err |-> FALSE, status |-> 404, body |-> NoBody]

r_search_hit ==
  [err |-> FALSE, status |-> 200,
   body |-> [json |-> TRUE, top |-> "dict", query |-> "dict", search |-> "list"]]

ConcProbeResponses == {r_not_found, r_search_hit}

r_hub_down ==
  [err |-> TRUE, status |-> 0,
   body |-> [json |-> FALSE, top |-> "none", items |-> "absent", list |-> <<>>]]

r_hub_hit ==
  [err |-> FALSE, status |-> 200,
   body |-> [json |-> TRUE, top |-> "dict", items |-> "list",
             list |-> <<[kind |-> "str", url |-> u_hub_fandom]>>]]

ConcHubResponses == {r_hub_down, r_hub_hit}

\* EnterLoops, on the frame q of one request
ReqEnterLoops(q, p, cl) ==
  [q EXCEPT !.pos = p,
            !.pc = IF p.st = "probe" THEN "probing"
                   ELSE IF p.st = "exhausted" THEN "hub" ELSE "done",
            !.result = IF p.st = "raise400" THEN Raised(400) ELSE NoResult,
            !.calls = IF p.st = "probe" THEN Issue(cl, "probe", p.api)
                      ELSE IF p.st = "exhausted" THEN Issue(cl, "hub", s_hub_search)
                      ELSE cl]

\* Finish, on the frame q of one request
ReqFinish(q, res) ==
  [q EXCEPT !.result = res, !.pc = "done", !.slugs = <<>>, !.pos = NoPos, !.calls = <<>>]

\* StartLoops, on the frame q of one request
ReqStartLoops(q, cs) ==
  IF ~cs.ok THEN ReqFinish(q, Raised(400))
  ELSE ReqEnterLoops([q EXCEPT !.slugs = cs.slugs], Seek(cs.slugs, 1, 1, 1), <<>>)

\* resolve_with_optional_base(t, w) up to its first await, in a new frame q
ReqStart(q, t, w) ==
  IF ~w.none /\ w.url # <<>>
  THEN ReqFinish(q, Explicit(w.url))
  ELSE IF StartsWith(t, s_http \o s_sep) \/ StartsWith(t, s_https \o s_sep)
  THEN ReqFinish(q, Explicit(t))
  ELSE ReqStartLoops(q, candidate_slugs(t))

ReqResolve(t, w) == ReqStart([IdleReq EXCEPT !.topic = t, !.wiki = w], t, w)

\* AfterProbe, on the frame q of one request
ReqAfterProbe(q, p) ==
  IF p.raised
  THEN [q EXCEPT !.result = Raised(500), !.pc = "done", !.calls = Settle(q.calls, "raised")]
  ELSE IF p.ret
  THEN [q EXCEPT !.result = Returned(q.pos.base, "slug"), !.pc = "done",
                 !.calls = Settle(q.calls, "ok")]
  ELSE ReqEnterLoops(q, Seek(q.slugs, q.pos.si, q.pos.bi, q.pos.ai + 1),
                     Settle(q.calls, "fail"))

\* AfterHub, on the frame q of one request
ReqAfterHub(q, fandom_base) ==
  IF ~fandom_base.none /\ host_is_allowed(fandom_base.base)
  THEN [q EXCEPT !.result = Returned(fandom_base.base, "fandom_hub"), !.pc = "done",
                 !.calls = Settle(q.calls, "ok")]
  ELSE [q EXCEPT !.result = Raised(404), !.pc = "done", !.calls = Settle(q.calls, "fail")]

\* mutant of ConcResolve: the platforms of a slug are iterated in no fixed order
ConcResolve_AnyPlatform(i, t, w) ==
  /\ reqs[i].pc = "idle"
  /\ \E bi \in 1..2 :
       reqs' = [reqs EXCEPT ![i] =
                  ReqEnterLoops([IdleReq EXCEPT !.topic = t, !.wiki = w,
                                                !.slugs = candidate_slugs(t).slugs],
                                Seek(candidate_slugs(t).slugs, 1, bi, 1), <<>>)]
  /\ UNCHANGED <<pc, topic, wiki, slugs, pos, calls, resp, hubResp, result,
                 apiBase, endpoints, pageVars, chunkVars>>

\* GET /resolve arrives while other requests may be in progress
ConcResolve(i, t, w) ==
  /\ reqs[i].pc = "idle"
  /\ reqs' = [reqs EXCEPT ![i] = ReqResolve(t, w)]
  /\ UNCHANGED <<pc, topic, wiki, slugs, pos, calls, resp, hubResp, result,
                 apiBase, endpoints, pageVars, chunkVars>>

\* the probe request of request i completes with answer r
ConcProbeReply(i, r) ==
  /\ reqs[i].pc = "probing"
  /\ reqs' = [reqs EXCEPT ![i].pc = "probed", ![i].resp = r, ![i].hist = Append(@, r)]
  /\ UNCHANGED <<pc, topic, wiki, slugs, pos, calls, resp, hubResp, result,
                 apiBase, endpoints, pageVars, chunkVars>>

\* mutant of ProbeAnswer: the answer is read from a buffer that every request
\* writes, so it is the one of the lowest-numbered request waiting to resume
ProbeAnswer_SharedBuffer(i) ==
  reqs[CHOOSE j \in Requests : reqs[j].pc = "probed" /\ \A k \in Requests : reqs[k].pc = "probed" => j <= k].resp

\* r, the local of request i's _probe_api
ProbeAnswer(i) == reqs[i].resp

\* request i is resumed: the rest of _probe_api, then the loops up to the next await
ConcProbeReturn(i) ==
  /\ reqs[i].pc = "probed"
  /\ reqs' = [reqs EXCEPT ![i] = ReqAfterProbe([@ EXCEPT !.resp = NoProbeResp],
                                                _probe_api(ProbeAnswer(i)))]
  /\ UNCHANGED <<pc, topic, wiki, slugs, pos, calls, resp, hubResp, result,
                 apiBase, endpoints, pageVars, chunkVars>>

\* the hub request of request i completes with answer r
ConcHubReply(i, r) ==
  /\ reqs[i].pc = "hub"
  /\ reqs' = [reqs EXCEPT ![i].pc = "hubbed", ![i].hubResp = r, ![i].hist = Append(@, r)]
  /\ UNCHANGED <<pc, topic, wiki, slugs, pos, calls, resp, hubResp, result,
                 apiBase, endpoints, pageVars, chunkVars>>

\* request i is resumed: the rest of fandom_hub_lookup, then resolve_topic's end
ConcHubReturn(i) ==
  /\ reqs[i].pc = "hubbed"
  /\ reqs' = [reqs EXCEPT ![i] = ReqAfterHub(@, fandom_hub_lookup(@.hubResp))]
  /\ UNCHANGED <<pc, topic, wiki, slugs, pos, calls, resp, hubResp, result,
                 apiBase, endpoints, pageVars, chunkVars>>

\* the response of request i is sent and its frame is gone
ConcRespond(i) ==
  /\ reqs[i].pc = "done"
  /\ reqs' = [reqs EXCEPT ![i] = IdleReq]
  /\ UNCHANGED <<pc, topic, wiki, slugs, pos, calls, resp, hubResp, result,
                 apiBase, endpoints, pageVars, chunkVars>>

NextConc ==
  \/ \E i \in Requests, t \in ConcTopics, w \in ConcWikis : ConcResolve(i, t, w)
  \/ \E i \in Requests, r \in ConcProbeResponses : ConcProbeReply(i, r)
  \/ \E i \in Requests : ConcProbeReturn(i)
  \/ \E i \in Requests, r \in ConcHubResponses : ConcHubReply(i, r)
  \/ \E i \in Requests : ConcHubReturn(i)
  \/ \E i \in Requests : ConcRespond(i)

SpecConc == Init /\ [][NextConc]_vars

(***************************************************************************)
(* Specification SpecChunk: the chunk mode of the page route.  A page has  *)
(* been fetched and its text extracted; each step is one request for one   *)
(* chunk of it, all with the same chunk_size.                              *)
(***************************************************************************)
\* chunk_size: int = Query(8000, ge=1000, le=20000)
MinChunkSize == 1000

MaxChunkSize == 20000

DefaultChunkSize == 8000

ChunkSizes == {MinChunkSize, MinChunkSize + 1, 1500, DefaultChunkSize, MaxChunkSize}

\* lengths of the extract: below, at and above one and several chunk sizes
ExtractLens == {1, 999, 1000, 1001, 1499, 1500, 2000, 2002, 3000, 3003, 4500, 8000, 8001}

\* a text of n characters
TextOf(n) == [i \in 1..n |-> LowerLetters[(i % 26) + 1]]

\* extract_text[start:end], for 0 <= start < len(extract_text) and start < end
PySlice(text, start, end) == SubSeq(text, start + 1, IF end < Len(text) THEN end ELSE Len(text))

\* mutant of TotalChunks: one more than the number of whole chunks
TotalChunks_FloorPlusOne(total_len, size) == (total_len \div size) + 1

\* total_chunks = (total_len + chunk_size - 1) // chunk_size
TotalChunks(total_len, size) == (total_len + size - 1) \div size

\* raise HTTPException(status_code=416, detail="chunk out of range")
ChunkOutOfRange ==
  [status |-> 416, total_chunks |-> 0, is_last_chunk |-> FALSE, extract |-> <<>>]

\* the chunk branch of page: start = chunk * chunk_size; end = start + chunk_size
ChunkResponse(text, size, c, total_chunks, start) ==
  IF start >= Len(text) THEN ChunkOutOfRange
  ELSE [status |-> 200,
        total_chunks |-> total_chunks,
        is_last_chunk |-> (c = total_chunks - 1),
        extract |-> PySlice(text, start, start + size)]

\* the page has been parsed; a page with no extractable text has ended in 404
InitChunk ==
  /\ InitPage
  /\ InitResolve
  /\ pc = "chunk"
  /\ calls = <<>>
  /\ result = NoResult
  /\ extract_text \in {TextOf(n) : n \in ExtractLens}
  /\ chunk_size \in ChunkSizes
  /\ chunks = [c \in 0..MaxChunk |-> NoChunk]

\* GET /page with mode=chunk and chunk=c
PageChunk(c) ==
  /\ pc = "chunk"
  /\ chunks[c] = NoChunk
  /\ chunks' = [chunks EXCEPT ![c] =
                  ChunkResponse(extract_text, chunk_size, c,
                                TotalChunks(Len(extract_text), chunk_size), c * chunk_size)]
  /\ UNCHANGED <<pc, calls, result, extract_text, chunk_size, pageVars, topic, wiki, slugs,
                 pos, resp, hubResp, apiBase, endpoints, reqs>>

NextChunk == \E c \in 0..MaxChunk : PageChunk(c)

SpecChunk == InitChunk /\ [][NextChunk]_vars

(***************************************************************************)
(* The documented probe order, written out independently of the loops      *)
(***************************************************************************)
\* slugs of the current request's topic
TopicSlugs == candidate_slugs(topic).slugs

\* the k-th candidate (k = 1, 2, ...) in slug-major order: four per slug,
\* fandom.com before wiki.gg, primary endpoint before fallback
PriorityBase(sl, k) ==
  s_https \o s_sep \o sl[((k - 1) \div 4) + 1] \o <<".">>
    \o (IF (k - 1) % 4 < 2 THEN s_fandom_com ELSE s_wiki_gg)

PriorityApi(sl, k) ==
  PriorityBase(sl, k) \o (IF (k - 1) % 4 \in {0, 3} THEN s_api_php ELSE s_w_api_php)

NumCandidates(sl) == 4 * Len(sl)

\* C1 (short-circuit): if the k-th probe in priority order is the first to
\* succeed, exactly k outbound calls have been issued, all of them probes in
\* priority order, none of them a hub lookup, nothing is issued afterwards,
\* and the resolution has returned that probe's base with method "slug".
C1_ShortCircuit ==
  \A k \in 1..Len(calls) :
    (calls[k].kind = "probe" /\ calls[k].st = "ok") =>
      /\ Len(calls) = k
      /\ \A j \in 1..k : calls[j].kind = "probe" /\ calls[j].url = PriorityApi(TopicSlugs, j)
      /\ \A j \in 1..(k - 1) : calls[j].st = "fail"
      /\ pc = "done"
      /\ result = Returned(PriorityBase(TopicSlugs, k), "slug")

\* a probe other than the first succeeded after earlier ones failed
C1_Witness ==
  /\ pc = "done"
  /\ Len(calls) >= 3
  /\ calls[Len(calls)].kind = "probe"
  /\ calls[Len(calls)].st = "ok"
  /\ result.method = "slug"

\* C2 (priority order): the probes are issued in slug-major order (per slug
\* fandom.com then wiki.gg, per base primary then fallback endpoint), and a
\* base returned with method "slug" is the base of the first candidate in
\* that order whose probe succeeded.
C2_PriorityOrder ==
  /\ \A j \in 1..Len(calls) :
       calls[j].kind = "probe" =>
         j <= NumCandidates(TopicSlugs) /\ calls[j].url = PriorityApi(TopicSlugs, j)
  /\ result.method = "slug" =>
       \E k \in 1..NumCandidates(TopicSlugs) :
         /\ k = Len(calls)
         /\ calls[k].st = "ok"
         /\ \A j \in 1..(k - 1) : calls[j].st = "fail"
         /\ result.base = PriorityBase(TopicSlugs, k)

\* the wiki.gg fallback endpoint of the second slug was the first to succeed
C2_Witness ==
  /\ result.method = "slug"
  /\ Len(calls) = 8
  /\ result.base = s_https \o s_sep \o TopicSlugs[2] \o <<".">> \o s_wiki_gg
  /\ calls[8].url = result.base \o s_api_php

\* C3 (hub last): a hub lookup is issued only after every (slug, platform,
\* endpoint) probe of the topic has been issued and has failed; never before a
\* probe, never after a successful probe, never when a wiki was supplied.
C3_HubLast ==
  \A j \in 1..Len(calls) :
    calls[j].kind = "hub" =>
      /\ j = NumCandidates(TopicSlugs) + 1
      /\ j = Len(calls)
      /\ \A i \in 1..(j - 1) :
           /\ calls[i].kind = "probe"
           /\ calls[i].url = PriorityApi(TopicSlugs, i)
           /\ calls[i].st = "fail"
      /\ wiki.none \/ wiki.url = <<>>

\* the hub request is in flight after eight failed probes
C3_Witness ==
  /\ Len(calls) = 9
  /\ calls[9].kind = "hub"
  /\ \A i \in 1..8 : calls[i].kind = "probe" /\ calls[i].st = "fail"

(***************************************************************************)
(* The explicit-wiki path, stated on the parts the URL was written from    *)
(***************************************************************************)
\* the URL of every choice of parts, computed once
WikiUrlOf == [p \in WikiParts |-> WikiUrl(p)]

\* the scheme is http or https (URL schemes are case-insensitive)
SchemeIsHttp(p) == Lower(p.scheme) \in {s_http, s_https}

\* the hostname ends with fandom.com, wiki.gg or wikipedia.org
HostSuffixAllowed(h) ==
  \E sfx \in {s_fandom_com, s_wiki_gg, s_wikipedia_org} : EndsWith(Lower(h), sfx)

\* a non-empty wiki parameter was sent with the request
WikiSupplied == ~wiki.none /\ wiki.url # <<>>

\* C4 (allow-list enforcement): an explicit wiki URL with an http/https scheme
\* whose hostname does not end with an allow-listed suffix fails with 403 and
\* no outbound call (probe or hub lookup) is issued, whatever the topic.
C4_AllowList ==
  WikiSupplied =>
    \A p \in WikiParts :
      (/\ wiki.url = WikiUrlOf[p]
       /\ SchemeIsHttp(p)
       /\ p.host # <<>>
       /\ ~HostSuffixAllowed(p.host)) =>
        /\ pc = "done"
        /\ result = Raised(403)
        /\ calls = <<>>

\* a host that merely contains an allow-listed suffix was refused
C4_Witness ==
  /\ pc = "done"
  /\ wiki = [none |-> FALSE, url |-> s_https \o s_sep \o h_fandom_prefix]
  /\ topic = t_onetwo
  /\ result = Raised(403)

\* C5 (explicit-wiki path): an explicit wiki URL with scheme http or https and
\* an allow-listed hostname resolves, whatever its path, query, port, user or
\* surrounding blanks, to scheme://lowercased-hostname with method "explicit"
\* and no outbound call; one with no hostname or another (or no) scheme fails
\* with 400, also with no outbound call and whether or not its host is allowed.
C5_ExplicitWiki ==
  WikiSupplied =>
    \A p \in WikiParts :
      wiki.url = WikiUrlOf[p] =>
        /\ pc = "done"
        /\ calls = <<>>
        /\ (SchemeIsHttp(p) /\ p.host # <<>> /\ HostSuffixAllowed(p.host)) =>
             result = Returned(Lower(p.scheme) \o s_sep \o Lower(p.host), "explicit")
        /\ (~SchemeIsHttp(p) \/ p.host = <<>>) => result = Raised(400)

\* an upper-case host with user, port, path and query was normalised
C5_Witness ==
  /\ pc = "done"
  /\ wiki.url = <<" ">> \o s_https \o s_sep \o <<"u","@">> \o h_fandom_upper
                  \o <<":","8","0","8","0">>
                  \o <<"/","w","i","k","i","/","F","o","o","?","a","=","b">> \o <<" ">>
  /\ result = Returned(s_https \o s_sep \o Lower(h_fandom_upper), "explicit")
  /\ calls = <<>>
\* the topic itself is written as a URL
TopicIsUrl == StartsWith(topic, s_http \o s_sep) \/ StartsWith(topic, s_https \o s_sep)

\* the last outbound call of the request is of this kind and succeeded
LastCallOk(kind) ==
  calls # <<>> /\ calls[Len(calls)].kind = kind /\ calls[Len(calls)].st = "ok"

\* C6 as stated: every successful resolution returns a method that is one of
\* explicit, slug, hub: explicit exactly when the caller supplied the wiki,
\* slug exactly when a direct probe succeeded, hub exactly when the hub
\* fallback found the base; /resolve exposes the value.
C6_MethodAsStated ==
  result.status = "ok" =>
    /\ resolve.resolution_method \in {"explicit", "slug", "hub"}
    /\ (resolve.resolution_method = "explicit") <=> WikiSupplied
    /\ (resolve.resolution_method = "slug") <=> LastCallOk("probe")
    /\ (resolve.resolution_method = "hub") <=> LastCallOk("hub")

\* C6 (amended): every successful resolution returns a method that is one of
\* explicit, slug, fandom_hub: explicit exactly when a non-empty wiki was
\* supplied or the topic itself begins with http:// or https://, slug exactly
\* when a direct probe succeeded, fandom_hub exactly when the hub fallback
\* found the base; /resolve exposes the value as resolution_method.
C6_Method ==
  result.status = "ok" =>
    /\ resolve.resolution_method \in {"explicit", "slug", "fandom_hub"}
    /\ (resolve.resolution_method = "explicit") <=> (WikiSupplied \/ TopicIsUrl)
    /\ (resolve.resolution_method = "slug") <=> LastCallOk("probe")
    /\ (resolve.resolution_method = "fandom_hub") <=> LastCallOk("hub")
    /\ resolve.wiki = result.base

\* a base found by the hub fallback was returned
C6_Witness ==
  /\ pc = "done"
  /\ result.status = "ok"
  /\ LastCallOk("hub")
  /\ resolve.resolution_method = "fandom_hub"

\* scheme://hostname with scheme http or https, a lowercase hostname ending in
\* an allow-listed suffix, and nothing after the hostname
WellFormedBase(b) ==
  \E sch \in {s_http, s_https} :
    /\ StartsWith(b, sch \o s_sep)
    /\ Len(b) > Len(sch) + 3
    /\ \A i \in (Len(sch) + 4)..Len(b) :
         b[i] \notin {"/", "?", "#", ":", "@", " "} /\ ~IsUpper(b[i])
    /\ HostSuffixAllowed(SubSeq(b, Len(sch) + 4, Len(b)))

\* C7 (WikiBase invariant): every base returned by a successful resolution,
\* by any path and for any upstream content, is scheme://hostname with scheme
\* http or https, a lowercase allow-listed hostname, and no path or query.
C7_WikiBase == result.status = "ok" => WellFormedBase(result.base)

\* the tokens of the current request's topic
TopicTokens == tokenize_topic(topic).tokens

\* every candidate probe of the topic was issued and failed, then the hub
\* lookup was issued and gave no allow-listed base
Exhausted ==
  /\ Len(calls) = NumCandidates(TopicSlugs) + 1
  /\ \A i \in 1..NumCandidates(TopicSlugs) : calls[i].kind = "probe" /\ calls[i].st = "fail"
  /\ calls[Len(calls)].kind = "hub"
  /\ calls[Len(calls)].st = "fail"

\* the hub search failed: transport error, a status other than 200, a body
\* that is not JSON or not a JSON object
HubFailure(r) == r.err \/ r.status # 200 \/ ~r.body.json \/ r.body.top # "dict"

\* C8 (exhaustion): with no explicit wiki and a topic that yields tokens, the
\* resolution ends in 404 exactly when every probe failed and the hub lookup
\* gave no allow-listed base; once an outbound call has been issued no other
\* error than that 404 ends the resolution, and a failed hub search ends it
\* in that 404.
C8_Exhaustion ==
  (pc = "done" /\ ~WikiSupplied /\ TopicTokens # <<>>) =>
    /\ (result = Raised(404)) <=> Exhausted
    /\ (calls # <<>> /\ result.status = "error") => result.code = 404
    /\ (calls # <<>> /\ calls[Len(calls)].kind = "hub" /\ HubFailure(hubResp)) =>
         result = Raised(404)

\* eight probes and the hub lookup failed and the request ended in 404
C8_Witness ==
  /\ pc = "done"
  /\ ~WikiSupplied
  /\ Len(calls) = 9
  /\ Exhausted
  /\ result = Raised(404)

\* status 200, a JSON object, and query.search present and a list
ProbeGood(r) ==
  /\ ~r.err
  /\ r.status = 200
  /\ r.body.json
  /\ r.body.top = "dict"
  /\ r.body.query = "dict"
  /\ r.body.search \in {"empty_list", "list"}

\* C9 (probe outcome): a probe counts as a success exactly when the answer has
\* status 200, is valid JSON and has a list (even an empty one) at
\* query.search; on every other answer, transport failures included, it
\* counts as a failure, nothing is raised, and resolve_topic goes on to the
\* next candidate (or to the hub lookup after the last one).
C9_ProbeOutcome ==
  [][pc = "probed" =>
       /\ calls'[Len(calls)].st = (IF ProbeGood(resp) THEN "ok" ELSE "fail")
       /\ ProbeGood(resp) => pc' = "done" /\ result' = Returned(pos.base, "slug")
       /\ ~ProbeGood(resp) => pc' \in {"probing", "hub"} /\ result' = NoResult
                                /\ Len(calls') = Len(calls) + 1]_vars

\* the second probe, after a failed first one, is answered with status 200 and
\* an empty query.search list
C9_Witness ==
  /\ pc = "probed"
  /\ Len(calls) = 2
  /\ calls[1].st = "fail"
  /\ resp.status = 200
  /\ resp.body.query = "dict"
  /\ resp.body.search = "empty_list"

\* C10 (endpoint strategy): for every valid base candidate_action_apis returns
\* 1 or 2 URLs, primary first: base/api.php then base/w/api.php for a
\* fandom.com host, base/w/api.php alone for a wikipedia.org host, and
\* base/w/api.php then base/api.php for a wiki.gg or any other host.
C10_EndpointStrategy ==
  pc = "apis_ret" =>
    \A p \in WikiParts :
      (apiBase = WikiUrlOf[p] /\ SchemeIsHttp(p) /\ p.host # <<>>) =>
        /\ endpoints.ok
        /\ Len(endpoints.apis) \in {1, 2}
        /\ endpoints.apis =
             IF EndsWith(Lower(p.host), s_fandom_com)
             THEN << Lower(p.scheme) \o s_sep \o Lower(p.host) \o s_api_php,
                     Lower(p.scheme) \o s_sep \o Lower(p.host) \o s_w_api_php >>
             ELSE IF EndsWith(Lower(p.host), s_wikipedia_org)
             THEN << Lower(p.scheme) \o s_sep \o Lower(p.host) \o s_w_api_php >>
             ELSE << Lower(p.scheme) \o s_sep \o Lower(p.host) \o s_w_api_php,
                     Lower(p.scheme) \o s_sep \o Lower(p.host) \o s_api_php >>

\* a fandom.com base written in upper case got its two endpoints, /api.php first
C10_Witness ==
  /\ pc = "apis_ret"
  /\ apiBase = s_https \o s_sep \o h_fandom_upper
  /\ endpoints.ok
  /\ endpoints.apis = << s_https \o s_sep \o Lower(h_fandom_upper) \o s_api_php,
                         s_https \o s_sep \o Lower(h_fandom_upper) \o s_w_api_php >>

\* candidates as the dedup loop sees them: each stripped and lower-cased
AsSeen(cands) == [k \in 1..Len(cands) |-> Lower(Strip(cands[k]))]

\* the candidates of the current topic in the order candidate_slugs generates them
Generated == AsSeen(SlugCandidates(TopicTokens))

\* position at which s is first generated; 0 when it never is
FirstGenerated(gen, s) ==
  IF \E k \in 1..Len(gen) : gen[k] = s
  THEN CHOOSE k \in 1..Len(gen) : gen[k] = s /\ \A j \in 1..(k - 1) : gen[j] # s
  ELSE 0

SlugInvariants(sl, gen) ==
  /\ \A i \in 1..Len(sl) :
       /\ \A j \in 1..Len(sl[i]) : ~IsUpper(sl[i][j]) /\ ~IsSpace(sl[i][j])
       /\ Len(sl[i]) >= 3
       /\ FirstGenerated(gen, sl[i]) > 0
  /\ \A i, j \in 1..Len(sl) : i # j => Lower(sl[i]) # Lower(sl[j])
  /\ \A i \in 1..(Len(sl) - 1) : FirstGenerated(gen, sl[i]) < FirstGenerated(gen, sl[i + 1])

\* C11 (slug sequence invariants): every element of candidate_slugs(topic) is
\* lowercase, has no whitespace and at least 3 characters; no two elements
\* are equal ignoring case; and the elements stand in the order in which
\* they were first generated.
C11_SlugInvariants == pc = "slugs_ret" => SlugInvariants(slugs, Generated)

RepeatedAndShort(gen) ==
  /\ \E k \in 1..Len(gen) : Len(gen[k]) \in {1, 2}
  /\ \E k, m \in 1..Len(gen) : k # m /\ gen[k] = gen[m] /\ Len(gen[k]) >= 3

\* a topic with an upper-case word gave three or more slugs, while one of its
\* candidates was too short and another was generated twice
C11_Witness ==
  /\ pc = "slugs_ret"
  /\ Len(slugs) >= 3
  /\ \E j \in 1..Len(topic) : IsUpper(topic[j])
  /\ RepeatedAndShort(Generated)

\* the topic has no word character: its tokenization yields no tokens
NoWordChar(t) == \A i \in 1..Len(t) : ~IsWordChar(t[i])

\* the request reached slug generation: no wiki was sent and the topic is no URL
SlugsWanted == pc # "idle" /\ ~WikiSupplied /\ ~TopicIsUrl

\* C12 (empty topic): slug generation fails with HTTP 400 whenever the
\* tokenization of the topic yields no tokens, a non-empty topic made only of
\* punctuation included; then no probe and no hub lookup is issued.
C12_EmptyTopic ==
  (SlugsWanted /\ NoWordChar(topic)) =>
    pc = "done" /\ result = Raised(400) /\ calls = <<>>

\* the tokens of the topic are all stopwords (and there is at least one)
AllStopwords == TopicTokens # <<>> /\ \A i \in 1..Len(TopicTokens) : TopicTokens[i] \in STOPWORDS

\* the first outbound call of the request is a probe, not the hub lookup
ProbedFirst == calls # <<>> /\ calls[1].kind = "probe"

\* C13 as stated: for every topic whose tokens are all stopwords,
\* candidate_slugs does not fail and its result contains the compact and the
\* hyphenated join of the unfiltered tokens, so the slug sequence is not
\* empty and a direct probe is issued before any fallback.
C13_AllStopwordsAsStated ==
  (SlugsWanted /\ AllStopwords) =>
    /\ result # Raised(400)
    /\ join_compact(TopicTokens) \in Range(TopicSlugs)
    /\ join_hyphen(TopicTokens) \in Range(TopicSlugs)
    /\ slugs # <<>>
    /\ ProbedFirst

\* the joins of the tokens that are long enough to be slugs
LongJoins(tokens) == {j \in Range(BothJoins(tokens)) : Len(j) >= 3}

\* C13 (all-stopword topics): for every topic whose tokens are all stopwords,
\* candidate_slugs does not fail and its result contains each join of the
\* unfiltered tokens (compact, hyphenated) that has at least 3 characters;
\* the slug sequence is non-empty, and a direct probe is issued before any
\* fallback, exactly when there is such a join, as there is for every topic
\* of two or more tokens.
C13_AllStopwords ==
  (SlugsWanted /\ AllStopwords) =>
    /\ result # Raised(400)
    /\ LongJoins(TopicTokens) \subseteq Range(slugs)
    /\ slugs # <<>> <=> LongJoins(TopicTokens) # {}
    /\ ProbedFirst <=> LongJoins(TopicTokens) # {}
    /\ Len(TopicTokens) >= 2 => LongJoins(TopicTokens) # {}

\* a two-stopword topic had its first slug probed and the probe failed
C13_Witness ==
  /\ SlugsWanted
  /\ AllStopwords
  /\ Len(TopicTokens) = 2
  /\ join_compact(TopicTokens) = slugs[1]
  /\ Len(calls) >= 2
  /\ calls[1].kind = "probe"
  /\ calls[1].st = "fail"

\* a HEAD request has been issued for this page request
HeadIssued == \E i \in 1..Len(calls) : calls[i].kind = "head"

\* the API lookup found the page: query.pages has a page that is not missing
PageFound == fetched.st = "returned" /\ apiResp.body.shape \in {"title", "notitle"}

\* the API lookup reported the page missing (or no page at all)
PageMissing == fetched.st = "returned" /\ apiResp.body.shape \in {"noquery", "nopages", "missing"}

\* the title stage ran for a supplied title
TitleStageDone == pc = "title_done" /\ title # <<>>

\* C14 (title canonicalization order): the API redirect lookup is tried first
\* and its title is used when the page is not missing; the HEAD probe is
\* issued only after the API lookup reported the page missing or failed; the
\* requested (or shorthand-normalized) title is used verbatim only when the
\* HEAD probe also fails to produce a title; and no failure of either lookup
\* aborts the request at this stage.
C14_TitleOrder ==
  /\ \A i \in 1..Len(calls) :
       calls[i].kind = "head" =>
         /\ i = Len(calls)
         /\ \A j \in 1..(i - 1) : calls[j].kind = "api" /\ calls[j].st # "pending"
         /\ PageMissing \/ fetched.st = "raised"
  /\ (TitleStageDone /\ fetched.st = "returned" /\ apiResp.body.shape = "title") =>
       resolved_title.title = apiResp.body.title /\ ~HeadIssued
  /\ (TitleStageDone /\ ~resolved_title.none /\ resolved_title.title = lookup_title) =>
       HeadIssued /\ calls[Len(calls)].st = "fail"
  /\ TitleStageDone => result.status # "error" /\ ~resolved_title.none

\* %XX escapes of the model's alphabet
HexChar(a, b) ==
  IF <<a, b>> = <<"2", "C">> THEN ","
  ELSE IF <<a, b>> = <<"2", "0">> THEN " "
  ELSE IF <<a, b>> = <<"2", "5">> THEN "%"
  ELSE IF <<a, b>> = <<"3", "A">> THEN ":"
  ELSE IF <<a, b>> = <<"3", "F">> THEN "?"
  ELSE "!"

\* the text with its percent-escapes decoded
RECURSIVE PercentDecoded(_)
PercentDecoded(x) ==
  IF x = <<>> THEN <<>>
  ELSE IF x[1] = "%" /\ Len(x) >= 3
  THEN <<HexChar(x[2], x[3])>> \o PercentDecoded(Slice(x, 4, Len(x)))
  ELSE <<x[1]>> \o PercentDecoded(Tail(x))

\* the text after the first /wiki/ of the URL the HEAD request ended at
FinalSegment == Slice(headResp.final, FindWiki(headResp.final) + 6, Len(headResp.final))

\* the page was reported missing and the HEAD request ended at .../wiki/{segment}
HeadGaveSegment ==
  /\ TitleStageDone
  /\ PageMissing
  /\ HeadIssued
  /\ ~headResp.err
  /\ FindWiki(headResp.final) > 0
  /\ FinalSegment # <<>>

\* C15 (HEAD-redirect title): when the API reports the page missing and the
\* HEAD request ends at a URL containing /wiki/{segment}, the resolved title
\* is the segment with percent-escapes decoded and underscores turned into
\* spaces.
C15_HeadTitle ==
  HeadGaveSegment =>
    resolved_title.title = PercentDecoded(ReplaceChar(FinalSegment, "_", " "))

\* the longest run of digits at the end of x
RECURSIVE DigitSuffix(_)
DigitSuffix(x) ==
  IF x # <<>> /\ IsDigitChar(x[Len(x)])
  THEN Append(DigitSuffix(SubSeq(x, 1, Len(x) - 1)), x[Len(x)])
  ELSE <<>>

\* x without what DigitSuffix takes
BeforeDigits(x) == SubSeq(x, 1, Len(x) - Len(DigitSuffix(x)))

\* x is empty, or "episode" followed by nothing but spaces
EpisodePrefix(x) ==
  x = <<>> \/ (StartsWith(x, s_episode) /\ \A i \in (Len(s_episode) + 1)..Len(x) : IsSpace(x[i]))

\* ignoring case and surrounding whitespace, x is an optional "episode"
\* prefix followed by digits
IsShorthand(x) ==
  DigitSuffix(Lower(Strip(x))) # <<>> /\ EpisodePrefix(BeforeDigits(Lower(Strip(x))))

\* a number written without its leading zeros
RECURSIVE NoLeadingZeros(_)
NoLeadingZeros(d) == IF Len(d) > 1 /\ d[1] = "0" THEN NoLeadingZeros(Tail(d)) ELSE d

EpisodeN(x) == s_Episode_us \o NoLeadingZeros(DigitSuffix(Lower(Strip(x))))

\* C16 as stated: for every title that, ignoring case and surrounding
\* whitespace, is an optional "episode" prefix followed by digits, the title
\* used for lookup is Episode_N with N the number without leading zeros; every
\* other title is looked up unchanged.
C16_EpisodeAsStated ==
  pc = "episode_ret" =>
    lookup_title = IF IsShorthand(title) THEN EpisodeN(title) ELSE title

\* ignoring case and surrounding whitespace, x begins with "episode_"
HasEpisodeUnderscore(x) == StartsWith(Lower(Strip(x)), s_episode_us)

\* y is x in title case with its spaces turned into underscores
IsTitleCased(y, x) ==
  /\ Lower(y) = ReplaceChar(x, " ", "_")
  /\ \A i \in 1..Len(y) :
       IsAlpha(y[i]) => (IsUpper(y[i]) <=> (i = 1 \/ ~IsAlpha(y[i - 1])))

\* C16 (episode shorthand): for every title that, ignoring case and
\* surrounding whitespace, is an optional "episode" prefix followed by digits,
\* the title used for lookup is Episode_N with N the number without leading
\* zeros; a title that instead begins with "episode_" is looked up stripped
\* and in title case with its spaces turned into underscores; every other
\* title is looked up unchanged.
C16_Episode ==
  pc = "episode_ret" =>
    IF IsShorthand(title) THEN lookup_title = EpisodeN(title)
    ELSE IF HasEpisodeUnderscore(title) THEN IsTitleCased(lookup_title, Lower(Strip(title)))
    ELSE lookup_title = title

\* an upper-case, padded shorthand with leading zeros was rewritten
C16_Witness ==
  /\ pc = "episode_ret"
  /\ title = <<" ">> \o <<"E","P","I","S","O","D","E">> \o <<" ", " ", "0", "0", "1", "2", " ">>
  /\ lookup_title = s_Episode_us \o <<"1", "2">>

\* the requests mediawiki_get has sent, in order
ApiCalls == SelectSeq(calls, LAMBDA c : c.kind = "api")

\* the endpoints of the page's base, primary first
EndpointsOfPage ==
  IF pageBase = b_fandom THEN <<b_fandom \o s_api_php, b_fandom \o s_w_api_php>>
  ELSE IF pageBase = b_wikipedia THEN <<b_wikipedia \o s_w_api_php>>
  ELSE <<pageBase \o s_w_api_php, pageBase \o s_api_php>>

\* mediawiki_get has run to its end on a base it accepts
FetchEnded == fetched.st # "none" /\ fetched.code \notin {400, 403}

\* the endpoints were tried in order and the first to answer was returned
TriedInOrder(a, eps) ==
  /\ Len(a) <= Len(eps)
  /\ \A i \in 1..Len(a) : a[i].url = eps[i]
  /\ \A i \in 1..(Len(a) - 1) : a[i].st # "ok"
  /\ fetched.st = "returned" <=> (a # <<>> /\ a[Len(a)].st = "ok")
  /\ fetched.st = "raised" => fetched.code = 502

\* C17 as stated: mediawiki_get tries the endpoints in primary-then-fallback
\* order and returns the body of the first that answers; it fails with 502
\* exactly when every endpoint returned a status of 400 or more or had a
\* transport failure.
C17_FetchAsStated ==
  FetchEnded =>
    /\ TriedInOrder(ApiCalls, EndpointsOfPage)
    /\ fetched.st = "raised" <=>
         /\ Len(ApiCalls) = Len(EndpointsOfPage)
         /\ \A i \in 1..Len(ApiCalls) : ApiCalls[i].st \in {"error", "transport"}

\* C17 (content fetch): mediawiki_get tries the endpoints in
\* primary-then-fallback order and returns the body of the first that answers
\* with status 200 and a JSON body; it fails with 502 exactly when no endpoint
\* did (each one had a transport failure, a status other than 200 or a body
\* that is not JSON), and a failure of the primary endpoint alone is never
\* surfaced.
C17_Fetch ==
  FetchEnded =>
    /\ TriedInOrder(ApiCalls, EndpointsOfPage)
    /\ fetched.st = "raised" <=>
         /\ Len(ApiCalls) = Len(EndpointsOfPage)
         /\ \A i \in 1..Len(ApiCalls) :
              ApiCalls[i].st \in {"error", "transport", "other", "nojson"}
    /\ (Len(ApiCalls) = 2 /\ ApiCalls[2].st = "ok") => fetched.st = "returned"

\* the primary endpoint of a fandom.com base answered 503 and the fallback
\* answered with a page: mediawiki_get returned
C17_Witness ==
  /\ pc = "title_done"
  /\ pageBase = b_fandom
  /\ Len(ApiCalls) = 2
  /\ ApiCalls[1].st = "error"
  /\ ApiCalls[2].st = "ok"
  /\ fetched.st = "returned"
  /\ resolved_title.title = p_canon

\* the outbound calls of this kind issued so far
CallsOfKind(kind) == SelectSeq(calls, LAMBDA c : c.kind = kind)

\* no more than 2 platforms x 2 endpoints per slug, and one hub request
CallsBounded ==
  /\ Len(CallsOfKind("probe")) <= 2 * 2 * Len(TopicSlugs)
  /\ Len(CallsOfKind("hub")) <= 1
  /\ Len(calls) = Len(CallsOfKind("probe")) + Len(CallsOfKind("hub"))

\* the resolution has ended: resolved (200), not resolved (404), or an input
\* error (400, 403)
Terminal ==
  /\ pc = "done"
  /\ \/ result.status = "ok" /\ result.code = 200
     \/ result.status = "error" /\ result.code \in {400, 403, 404}

\* C19 (termination): provided every outbound call returns or times out,
\* every resolution reaches a terminal state (resolved, not resolved, or an
\* input error) after finitely many outbound calls: at most 2 platforms x 2
\* endpoints per slug, plus at most one hub request.
C19_Termination == [](pc # "idle" => CallsBounded) /\ (pc # "idle" ~> Terminal)

\* a resolution ended after the most calls its topic allows: every probe of
\* three slugs, then the hub request
C19_Witness ==
  /\ Terminal
  /\ Len(slugs) = 3
  /\ Len(CallsOfKind("probe")) = 12
  /\ Len(CallsOfKind("hub")) = 1

\* the URLs of a call log, in order
UrlsOf(cl) == [k \in 1..Len(cl) |-> cl[k].url]

\* one sequence continues the other
Agree(a, b) == StartsWith(a, b) \/ StartsWith(b, a)

\* two runs with the same topic, the same wiki and the same upstream answers
SameRun(p, q) ==
  /\ p.pc # "idle"
  /\ q.pc # "idle"
  /\ p.topic = q.topic
  /\ p.wiki = q.wiki
  /\ p.hist = q.hist

\* they have issued the same calls so far, and ended alike if both have ended
SameOutcome(p, q) ==
  /\ Agree(UrlsOf(p.calls), UrlsOf(q.calls))
  /\ p.pc = q.pc => p.calls = q.calls /\ p.result = q.result /\ p.pos = q.pos

Resumed(q, r) ==
  IF q.pc = "probing" THEN ReqAfterProbe(q, _probe_api(r))
  ELSE IF q.pc = "hub" THEN ReqAfterHub(q, fandom_hub_lookup(r))
  ELSE q

\* the frame of a request that runs alone and is resumed with the answers h
RECURSIVE Replay(_, _)
Replay(q, h) == IF h = <<>> THEN q ELSE Replay(Resumed(q, Head(h)), Tail(h))

\* the answers the request has been resumed with: all but one that has
\* arrived and waits for the event loop
Consumed(q) ==
  IF q.pc \in {"probed", "hubbed"} THEN SubSeq(q.hist, 1, Len(q.hist) - 1) ELSE q.hist

\* the frame of a request that runs alone, at its first await
FirstFrame == [t \in ConcTopics, w \in ConcWikis |-> ReqResolve(t, w)]

\* the same request served alone against the same answers
Alone(q) == Replay(FirstFrame[q.topic, q.wiki], Consumed(q))

AsAlone(q, a) ==
  /\ q.calls = a.calls
  /\ q.result = a.result
  /\ q.slugs = a.slugs
  /\ q.pos = a.pos
  /\ q.pc \in {"probing", "hub", "done"} => q.pc = a.pc

\* a step touches the frame of one request only
OneFrame == \A i \in Requests : \A j \in Requests : i # j => reqs'[i] = reqs[i] \/ reqs'[j] = reqs[j]

HubAnsweredHits(r) ==
  /\ ~r.err
  /\ r.status = 200
  /\ r.body.json
  /\ r.body.top = "dict"
  /\ r.body.items = "list"
  /\ \A k \in 1..Len(r.body.list) : r.body.list[k].kind \in {"str", "nourl"}

\* the hit has a URL whose host ends with an allow-listed suffix
AllowedHit(item) == item.kind = "str" /\ HostAllowed(urlparse(item.url).hostname)

\* the base derived from a hit's URL: its scheme and host
BaseOfHit(parsed) == parsed.scheme \o s_sep \o parsed.hostname

\* the first allow-listed hit, in hit order; 0 when there is none
FirstAllowedHit(items) ==
  IF \E k \in 1..Len(items) : AllowedHit(items[k])
  THEN CHOOSE k \in 1..Len(items) :
         AllowedHit(items[k]) /\ \A j \in 1..(k - 1) : ~AllowedHit(items[j])
  ELSE 0

\* the resolution ended after the hub lookup
EndedAfterHub ==
  /\ pc = "done"
  /\ calls # <<>>
  /\ calls[Len(calls)].kind = "hub"

\* what the claim says of a hub answer whose k-th hit is the first allow-listed one
HubHitReturned(items, k) ==
  k > 0 => result.status = "ok" /\ result.base = BaseOfHit(urlparse(items[k].url))

\* C21 (hub hit selection): when all direct probes fail and the hub search
\* answers 200 with a list of hits, the resolution returns the base derived
\* from the first hit, in hit order, whose host ends with any allow-listed
\* suffix (fandom.com, wiki.gg or wikipedia.org); hits with no URL or a
\* non-allow-listed host are skipped and do not stop the scan.
C21_HubHit ==
  (EndedAfterHub /\ HubAnsweredHits(hubResp)) =>
    HubHitReturned(hubResp.body.list, FirstAllowedHit(hubResp.body.list))

\* ceil(L / S), for L >= 0 and S > 0
CeilDiv(L, S) == IF L % S = 0 THEN L \div S ELSE (L \div S) + 1

\* the answers to chunk indexes 0..k, concatenated in index order
RECURSIVE Concatenated(_, _)
Concatenated(ch, k) == IF k < 0 THEN <<>> ELSE Concatenated(ch, k - 1) \o ch[k].extract

\* the answer to chunk index c of an extract of length L with chunk size S
ChunkAnswered(ch, c, L, S) ==
  /\ ch.status = 200 <=> c * S < L
  /\ ch.status # 200 => ch.status = 416
  /\ ch.status = 200 =>
       /\ ch.total_chunks = CeilDiv(L, S)
       /\ ch.is_last_chunk <=> (c + 1) * S >= L

\* the chunks 0..k, all served, make up the extract's first (k+1)*S characters
\* (all of it when there are fewer), and all of it when chunk k is the last
ChunksJoin(text, ch, k, S) ==
  (\A c \in 0..k : ch[c].status = 200) =>
    /\ Concatenated(ch, k) = PySlice(text, 0, (k + 1) * S)
    /\ ch[k].is_last_chunk => Concatenated(ch, k) = text

\* C22 (chunk partition, /page with mode=chunk): for an extract of length
\* L > 0 and chunk size S, chunk index c is served exactly when c*S < L and
\* otherwise fails with 416; total_chunks equals ceil(L/S); is_last_chunk is
\* true for exactly one served index, the highest; and the served chunks
\* concatenated in index order equal the full extract with no overlap and no
\* gap.
C22_ChunkPartition ==
  pc = "chunk" =>
    /\ \A c \in 0..MaxChunk :
         chunks[c] # NoChunk => ChunkAnswered(chunks[c], c, Len(extract_text), chunk_size)
    /\ \A k \in 0..MaxChunk : ChunksJoin(extract_text, chunks, k, chunk_size)

\* an extract of 3000 characters read in chunks of 1001: three chunks served,
\* the third one short and marked last, and index 3 refused with 416
C22_Witness ==
  /\ pc = "chunk"
  /\ Len(extract_text) = 3000
  /\ chunk_size = 1001
  /\ \A c \in 0..2 : chunks[c].status = 200 /\ chunks[c].total_chunks = 3
  /\ Len(chunks[0].extract) = 1001
  /\ Len(chunks[2].extract) = 998
  /\ chunks[2].is_last_chunk
  /\ ~chunks[1].is_last_chunk
  /\ chunks[3].status = 416
====
